---- MODULE Spec2Model ----
(***************************************************************************)
(* State-machine model of the learn_vulkan application (VulkanApp):        *)
(* main -> run -> initWindow, initVulkan, mainLoop (glfwPollEvents,        *)
(* drawFrame, recreateSwapChain), cleanup, together with the GPU queue    *)
(* that executes the submitted work and signals the fences.               *)
(*                                                                         *)
(* The GPU is modelled as a queue that retires submissions in submission  *)
(* order: a fence signal of vkQueueSubmit covers every command earlier in *)
(* submission order, so the CPU, which observes the GPU only through      *)
(* fences and idle waits, cannot tell an out-of-order execution from an   *)
(* in-order one that retires late.                                        *)
(***************************************************************************)
EXTENDS Integers, Sequences, FiniteSets, TLC

\* ---------------------------------------------------------------------------
\* Program constants
\* ---------------------------------------------------------------------------
MAX_FRAMES_IN_FLIGHT == 2
WIDTH == 800
HEIGHT == 600
gEnableValidationLayers == TRUE

\* timeout arguments of the two vkWaitForFences calls of drawFrame
SlotFenceTimeout == "UINT16_MAX"
ImageFenceTimeout == "UINT64_MAX"

\* ---------------------------------------------------------------------------
\* Bounds of the model
\* ---------------------------------------------------------------------------
MaxImages == 3
MaxFrames == 4

Slots == 0 .. (MAX_FRAMES_IN_FLIGHT - 1)
ImageCounts == 1 .. MaxImages
NullHandle == -1

\* framebuffer sizes the window can report: restored, minimized, collapsed
FbSizes == { <<WIDTH, HEIGHT>>, <<0, 0>>, <<WIDTH, 0>> }

AcquireResults == {"VK_SUCCESS", "VK_SUBOPTIMAL_KHR", "VK_ERROR_OUT_OF_DATE_KHR"}
PresentResults == {"VK_SUCCESS", "VK_SUBOPTIMAL_KHR", "VK_ERROR_OUT_OF_DATE_KHR",
                   "VK_ERROR_SURFACE_LOST_KHR"}

\* a wait with a finite timeout returns VK_TIMEOUT when the fence is late;
\* UINT64_MAX disables the timeout
MayTimeOut(timeout) == timeout # "UINT64_MAX"

\* a resize that grows the vector but never shrinks it
ResizeGrowOnly(vec, n, fill) ==
    IF n <= Len(vec) THEN vec
    ELSE vec \o [k \in 1 .. (n - Len(vec)) |-> fill]

\* std::vector::resize(n, fill)
Resize(vec, n, fill) ==
    IF n <= Len(vec) THEN SubSeq(vec, 1, n)
    ELSE vec \o [k \in 1 .. (n - Len(vec)) |-> fill]

\* ---------------------------------------------------------------------------
\* The straight-line procedures as tables of steps
\* ---------------------------------------------------------------------------
Op(step, fn, api, kind, obj, checked) ==
    [step |-> step, fn |-> fn, api |-> api, kind |-> kind, obj |-> obj, checked |-> checked]

\* creation / allocation / binding call whose VkResult is compared with VK_SUCCESS
Checked(step, fn, api, obj) == Op(step, fn, api, "create", obj, TRUE)
\* creation / allocation / binding call whose VkResult is dropped
Unchecked(step, fn, api, obj) == Op(step, fn, api, "create", obj, FALSE)
\* a condition that ends in LOG_FATAL when it fails
Require(step, fn, api) == Op(step, fn, api, "call", "", TRUE)
\* a fallible call that creates nothing and whose result is dropped
Ignore(step, fn, api) == Op(step, fn, api, "call", "", FALSE)
Destroy(step, fn, api, obj) == Op(step, fn, api, "destroy", obj, FALSE)
ResizeTo(step, fn, vec, src) == Op(step, fn, src, "resize", vec, FALSE)

createBuffer(step, buffer, memory) ==
    << Checked(step, "createBuffer", "vkCreateBuffer", buffer),
       Require(step, "findMemoryType", "findMemoryType"),
       Checked(step, "createBuffer", "vkAllocateMemory", memory),
       Unchecked(step, "createBuffer", "vkBindBufferMemory", "") >>

createImage(step, image, memory) ==
    << Checked(step, "createImage", "vkCreateImage", image),
       Require(step, "findMemoryType", "findMemoryType"),
       Checked(step, "createImage", "vkAllocateMemory", memory),
       Unchecked(step, "createImage", "vkBindImageMemory", "") >>

beginSingleTimeCommands(step) ==
    << Unchecked(step, "beginSingleTimeCommands", "vkAllocateCommandBuffers", "singleTimeCommandBuffer"),
       Ignore(step, "beginSingleTimeCommands", "vkBeginCommandBuffer") >>

endSingleTimeCommands(step) ==
    << Ignore(step, "endSingleTimeCommands", "vkEndCommandBuffer"),
       Op(step, "endSingleTimeCommands", "vkQueueSubmit", "submit", "", FALSE),
       Op(step, "endSingleTimeCommands", "vkQueueWaitIdle", "waitidle", "", FALSE),
       Destroy(step, "endSingleTimeCommands", "vkFreeCommandBuffers", "singleTimeCommandBuffer") >>

SingleTimeCommands(step) == beginSingleTimeCommands(step) \o endSingleTimeCommands(step)

createStagedBuffer(step, buffer, memory) ==
    createBuffer(step, "stagingBuffer", "stagingBufferMemory")
    \o << Ignore(step, step, "vkMapMemory") >>
    \o createBuffer(step, buffer, memory)
    \o SingleTimeCommands(step)
    \o << Destroy(step, step, "vkDestroyBuffer", "stagingBuffer"),
          Destroy(step, step, "vkFreeMemory", "stagingBufferMemory") >>

\* the commands of VK_EXT_debug_utils that vkGetInstanceProcAddr resolves; for
\* any other name it returns NULL
DebugUtilsCommands == {"vkCreateDebugUtilsMessengerEXT", "vkDestroyDebugUtilsMessengerEXT"}

vkGetInstanceProcAddr(pName) == IF pName \in DebugUtilsCommands THEN pName ELSE "nullptr"

\* VulkanUtils::DestroyDebugUtilsMessengerEXT: calls the function that
\* vkGetInstanceProcAddr returns for the name it passes, if it is not null
DestroyDebugUtilsMessengerEXT(step) ==
    LET func == vkGetInstanceProcAddr("vkDestroyDebugUtilsMEssengerEXT")
    IN IF func # "nullptr"
       THEN << Destroy(step, "DestroyDebugUtilsMessengerEXT", func, "debugMessenger_") >>
       ELSE << >>

createInstance ==
    << Require("createInstance", "createInstance", "checkValidationLayerSupport"),
       Checked("createInstance", "createInstance", "vkCreateInstance", "instance_") >>

setupDebugMessenger ==
    IF gEnableValidationLayers
    THEN << Checked("setupDebugMessenger", "setupDebugMessenger",
                    "CreateDebugUtilsMessengerEXT", "debugMessenger_") >>
    ELSE << >>

createSurface ==
    << Checked("createSurface", "createSurface", "glfwCreateWindowSurface", "surface_") >>

pickPhysicalDevice ==
    << Require("pickPhysicalDevice", "pickPhysicalDevice", "deviceCount != 0"),
       Require("pickPhysicalDevice", "pickPhysicalDevice", "isDeviceSuitable") >>

createLogicalDevice ==
    << Checked("createLogicalDevice", "createLogicalDevice", "vkCreateDevice", "device_") >>

createSwapChain ==
    << Checked("createSwapChain", "createSwapChain", "vkCreateSwapchainKHR", "swapChain_"),
       Op("createSwapChain", "createSwapChain", "vkGetSwapchainImagesKHR", "images",
          "swapChainImages_", FALSE) >>

createImageViews ==
    << ResizeTo("createImageViews", "createImageViews", "swapChainImageViews_", "swapChainImages_"),
       Checked("createImageViews", "createImageView", "vkCreateImageView", "swapChainImageViews_") >>

createRenderPass ==
    << Checked("createRenderPass", "createRenderPass", "vkCreateRenderPass", "renderPass_") >>

createDescriptorSetLayout ==
    << Checked("createDescriptorSetLayout", "createDescriptorSetLayout",
               "vkCreateDescriptorSetLayout", "descriptorSetLayout_") >>

createGraphicsPipeline ==
    << Require("createGraphicsPipeline", "readFile", "file.is_open (vert.spv)"),
       Require("createGraphicsPipeline", "readFile", "file.is_open (frag.spv)"),
       Checked("createGraphicsPipeline", "createShaderModule", "vkCreateShaderModule", "vertShaderModule"),
       Checked("createGraphicsPipeline", "createShaderModule", "vkCreateShaderModule", "fragShaderModule"),
       Checked("createGraphicsPipeline", "createGraphicsPipeline", "vkCreatePipelineLayout", "pipelineLayout_"),
       Checked("createGraphicsPipeline", "createGraphicsPipeline", "vkCreateGraphicsPipelines", "graphicsPipeline_"),
       Destroy("createGraphicsPipeline", "createGraphicsPipeline", "vkDestroyShaderModule", "fragShaderModule"),
       Destroy("createGraphicsPipeline", "createGraphicsPipeline", "vkDestroyShaderModule", "vertShaderModule") >>

createFrameBuffers ==
    << ResizeTo("createFrameBuffers", "createFrameBuffers", "swapChainFrameBuffers_", "swapChainImages_"),
       Checked("createFrameBuffers", "createFrameBuffers", "vkCreateFramebuffer", "swapChainFrameBuffers_") >>

createCommandPool ==
    << Checked("createCommandPool", "createCommandPool", "vkCreateCommandPool", "commandPool_") >>

createTextureImage ==
    << Require("createTextureImage", "createTextureImage", "stbi_load") >>
    \o createBuffer("createTextureImage", "stagingBuffer", "stagingBufferMemory")
    \o << Ignore("createTextureImage", "createTextureImage", "vkMapMemory") >>
    \o createImage("createTextureImage", "textureImage_", "textureImageMemory_")
    \o SingleTimeCommands("createTextureImage")
    \o SingleTimeCommands("createTextureImage")
    \o SingleTimeCommands("createTextureImage")
    \o << Destroy("createTextureImage", "createTextureImage", "vkDestroyBuffer", "stagingBuffer"),
          Destroy("createTextureImage", "createTextureImage", "vkFreeMemory", "stagingBufferMemory") >>

createTextureImageView ==
    << Checked("createTextureImageView", "createImageView", "vkCreateImageView", "textureImageView_") >>

createTextureSampler ==
    << Checked("createTextureSampler", "createTextureSampler", "vkCreateSampler", "textureSampler_") >>

createVertexBuffer == createStagedBuffer("createVertexBuffer", "vertexBuffer_", "vertexBufferMemory_")

createIndexBuffer == createStagedBuffer("createIndexBuffer", "indexBuffer_", "indexBufferMemory_")

createUniformBuffers ==
    << ResizeTo("createUniformBuffers", "createUniformBuffers", "uniformBuffers_", "swapChainImages_"),
       ResizeTo("createUniformBuffers", "createUniformBuffers", "uniformBuffersMemory_", "swapChainImages_") >>
    \o createBuffer("createUniformBuffers", "uniformBuffers_", "uniformBuffersMemory_")

createDescriptorPool ==
    << Checked("createDescriptorPool", "createDescriptorPool", "vkCreateDescriptorPool", "descriptorPool_") >>

createDescriptorSets ==
    << ResizeTo("createDescriptorSets", "createDescriptorSets", "descriptorSets_", "swapChainImages_"),
       Checked("createDescriptorSets", "createDescriptorSets", "vkAllocateDescriptorSets", "descriptorSets_") >>

createCommandBuffers ==
    << ResizeTo("createCommandBuffers", "createCommandBuffers", "commandBuffers_", "swapChainFrameBuffers_"),
       Checked("createCommandBuffers", "createCommandBuffers", "vkAllocateCommandBuffers", "commandBuffers_"),
       Require("createCommandBuffers", "createCommandBuffers", "vkBeginCommandBuffer"),
       Require("createCommandBuffers", "createCommandBuffers", "vkEndCommandBuffer") >>

createSyncObjects ==
    << ResizeTo("createSyncObjects", "createSyncObjects", "imagesInFlight_", "swapChainImages_"),
       Checked("createSyncObjects", "createSyncObjects", "vkCreateSemaphore", "imageAvailableSemaphores_"),
       Checked("createSyncObjects", "createSyncObjects", "vkCreateSemaphore", "renderFinishedSemaphores_"),
       Checked("createSyncObjects", "createSyncObjects", "vkCreateFence", "inFlightFences_") >>

\* an initVulkan that creates the framebuffers before the render pass
initVulkanFramebuffersFirst ==
    createInstance \o setupDebugMessenger \o createSurface \o pickPhysicalDevice
    \o createLogicalDevice \o createSwapChain \o createImageViews \o createFrameBuffers
    \o createRenderPass \o createDescriptorSetLayout \o createGraphicsPipeline
    \o createCommandPool \o createTextureImage \o createTextureImageView
    \o createTextureSampler \o createVertexBuffer \o createIndexBuffer
    \o createUniformBuffers \o createDescriptorPool \o createDescriptorSets
    \o createCommandBuffers \o createSyncObjects

initVulkan ==
    createInstance \o setupDebugMessenger \o createSurface \o pickPhysicalDevice
    \o createLogicalDevice \o createSwapChain \o createImageViews \o createRenderPass
    \o createDescriptorSetLayout \o createGraphicsPipeline \o createFrameBuffers
    \o createCommandPool \o createTextureImage \o createTextureImageView
    \o createTextureSampler \o createVertexBuffer \o createIndexBuffer
    \o createUniformBuffers \o createDescriptorPool \o createDescriptorSets
    \o createCommandBuffers \o createSyncObjects

\* a cleanupSwapChain that destroys the swapchain first
cleanupSwapChainSwapchainFirst ==
    << Destroy("cleanupSwapChain", "cleanupSwapChain", "vkDestroySwapchainKHR", "swapChain_"),
       Destroy("cleanupSwapChain", "cleanupSwapChain", "vkDestroyFramebuffer", "swapChainFrameBuffers_"),
       Destroy("cleanupSwapChain", "cleanupSwapChain", "vkFreeCommandBuffers", "commandBuffers_"),
       Destroy("cleanupSwapChain", "cleanupSwapChain", "vkDestroyPipeline", "graphicsPipeline_"),
       Destroy("cleanupSwapChain", "cleanupSwapChain", "vkDestroyPipelineLayout", "pipelineLayout_"),
       Destroy("cleanupSwapChain", "cleanupSwapChain", "vkDestroyRenderPass", "renderPass_"),
       Destroy("cleanupSwapChain", "cleanupSwapChain", "vkDestroyImageView", "swapChainImageViews_"),
       Destroy("cleanupSwapChain", "cleanupSwapChain", "vkDestroyBuffer", "uniformBuffers_"),
       Destroy("cleanupSwapChain", "cleanupSwapChain", "vkFreeMemory", "uniformBuffersMemory_"),
       Destroy("cleanupSwapChain", "cleanupSwapChain", "vkDestroyDescriptorPool", "descriptorPool_") >>

\* a cleanupSwapChain that also destroys the fences of the frame slots
cleanupSwapChainWithFences ==
    << Destroy("cleanupSwapChain", "cleanupSwapChain", "vkDestroyFramebuffer", "swapChainFrameBuffers_"),
       Destroy("cleanupSwapChain", "cleanupSwapChain", "vkFreeCommandBuffers", "commandBuffers_"),
       Destroy("cleanupSwapChain", "cleanupSwapChain", "vkDestroyPipeline", "graphicsPipeline_"),
       Destroy("cleanupSwapChain", "cleanupSwapChain", "vkDestroyPipelineLayout", "pipelineLayout_"),
       Destroy("cleanupSwapChain", "cleanupSwapChain", "vkDestroyRenderPass", "renderPass_"),
       Destroy("cleanupSwapChain", "cleanupSwapChain", "vkDestroyImageView", "swapChainImageViews_"),
       Destroy("cleanupSwapChain", "cleanupSwapChain", "vkDestroyBuffer", "uniformBuffers_"),
       Destroy("cleanupSwapChain", "cleanupSwapChain", "vkFreeMemory", "uniformBuffersMemory_"),
       Destroy("cleanupSwapChain", "cleanupSwapChain", "vkDestroyDescriptorPool", "descriptorPool_"),
       Destroy("cleanupSwapChain", "cleanupSwapChain", "vkDestroySwapchainKHR", "swapChain_"),
       Destroy("cleanupSwapChain", "cleanupSwapChain", "vkDestroyFence", "inFlightFences_") >>

cleanupSwapChain ==
    << Destroy("cleanupSwapChain", "cleanupSwapChain", "vkDestroyFramebuffer", "swapChainFrameBuffers_"),
       Destroy("cleanupSwapChain", "cleanupSwapChain", "vkFreeCommandBuffers", "commandBuffers_"),
       Destroy("cleanupSwapChain", "cleanupSwapChain", "vkDestroyPipeline", "graphicsPipeline_"),
       Destroy("cleanupSwapChain", "cleanupSwapChain", "vkDestroyPipelineLayout", "pipelineLayout_"),
       Destroy("cleanupSwapChain", "cleanupSwapChain", "vkDestroyRenderPass", "renderPass_"),
       Destroy("cleanupSwapChain", "cleanupSwapChain", "vkDestroyImageView", "swapChainImageViews_"),
       Destroy("cleanupSwapChain", "cleanupSwapChain", "vkDestroyBuffer", "uniformBuffers_"),
       Destroy("cleanupSwapChain", "cleanupSwapChain", "vkFreeMemory", "uniformBuffersMemory_"),
       Destroy("cleanupSwapChain", "cleanupSwapChain", "vkDestroyDescriptorPool", "descriptorPool_"),
       Destroy("cleanupSwapChain", "cleanupSwapChain", "vkDestroySwapchainKHR", "swapChain_") >>

\* recreateSwapChain without the vkDeviceWaitIdle before cleanupSwapChain
recreateSwapChainNoIdle ==
    cleanupSwapChain
    \o createSwapChain \o createImageViews \o createRenderPass \o createGraphicsPipeline
    \o createFrameBuffers \o createUniformBuffers \o createDescriptorPool
    \o createDescriptorSets \o createCommandBuffers
    \o << ResizeTo("recreateSwapChain", "recreateSwapChain", "imagesInFlight_", "swapChainImages_") >>

\* a recreateSwapChain that replaces the command pool as well
recreateSwapChainFreshCommandPool ==
    << Op("recreateSwapChain", "recreateSwapChain", "vkDeviceWaitIdle", "waitidle", "", FALSE) >>
    \o cleanupSwapChain
    \o << Destroy("recreateSwapChain", "recreateSwapChain", "vkDestroyCommandPool", "commandPool_") >>
    \o createSwapChain \o createImageViews \o createRenderPass \o createGraphicsPipeline
    \o createFrameBuffers \o createCommandPool \o createUniformBuffers \o createDescriptorPool
    \o createDescriptorSets \o createCommandBuffers
    \o << ResizeTo("recreateSwapChain", "recreateSwapChain", "imagesInFlight_", "swapChainImages_") >>

\* the part of recreateSwapChain that follows the minimization loop
recreateSwapChain ==
    << Op("recreateSwapChain", "recreateSwapChain", "vkDeviceWaitIdle", "waitidle", "", FALSE) >>
    \o cleanupSwapChain
    \o createSwapChain \o createImageViews \o createRenderPass \o createGraphicsPipeline
    \o createFrameBuffers \o createUniformBuffers \o createDescriptorPool
    \o createDescriptorSets \o createCommandBuffers
    \o << ResizeTo("recreateSwapChain", "recreateSwapChain", "imagesInFlight_", "swapChainImages_") >>

cleanup ==
    cleanupSwapChain
    \o << Destroy("cleanup", "cleanup", "vkDestroySemaphore", "renderFinishedSemaphores_"),
          Destroy("cleanup", "cleanup", "vkDestroySemaphore", "imageAvailableSemaphores_"),
          Destroy("cleanup", "cleanup", "vkDestroyFence", "inFlightFences_"),
          Destroy("cleanup", "cleanup", "vkDestroySampler", "textureSampler_"),
          Destroy("cleanup", "cleanup", "vkDestroyImageView", "textureImageView_"),
          Destroy("cleanup", "cleanup", "vkDestroyImage", "textureImage_"),
          Destroy("cleanup", "cleanup", "vkFreeMemory", "textureImageMemory_"),
          Destroy("cleanup", "cleanup", "vkDestroyBuffer", "indexBuffer_"),
          Destroy("cleanup", "cleanup", "vkFreeMemory", "indexBufferMemory_"),
          Destroy("cleanup", "cleanup", "vkDestroyBuffer", "vertexBuffer_"),
          Destroy("cleanup", "cleanup", "vkFreeMemory", "vertexBufferMemory_"),
          Destroy("cleanup", "cleanup", "vkDestroyDescriptorSetLayout", "descriptorSetLayout_"),
          Destroy("cleanup", "cleanup", "vkDestroyCommandPool", "commandPool_"),
          Destroy("cleanup", "cleanup", "vkDestroyDevice", "device_"),
          Destroy("cleanup", "cleanup", "vkDestroySurfaceKHR", "surface_") >>
    \o (IF gEnableValidationLayers
        THEN DestroyDebugUtilsMessengerEXT("cleanup")
        ELSE << >>)
    \o << Destroy("cleanup", "cleanup", "vkDestroyInstance", "instance_"),
          Destroy("cleanup", "cleanup", "glfwDestroyWindow", "window_") >>

\* ---------------------------------------------------------------------------
\* What each object is made of
\* ---------------------------------------------------------------------------
\* the handles passed to the call that creates or allocates the object
CreatedFrom(obj) ==
    CASE obj \in {"instance_", "window_"} -> {}
      [] obj = "debugMessenger_" -> {"instance_"}
      [] obj = "surface_" -> {"instance_", "window_"}
      [] obj = "device_" -> {"instance_"}
      [] obj = "swapChain_" -> {"device_", "surface_"}
      [] obj = "swapChainImageViews_" -> {"device_", "swapChain_"}
      [] obj = "pipelineLayout_" -> {"device_", "descriptorSetLayout_"}
      [] obj = "graphicsPipeline_" ->
            {"device_", "pipelineLayout_", "renderPass_", "vertShaderModule", "fragShaderModule"}
      [] obj = "swapChainFrameBuffers_" -> {"device_", "renderPass_", "swapChainImageViews_"}
      [] obj = "textureImageView_" -> {"device_", "textureImage_"}
      [] obj = "descriptorSets_" -> {"device_", "descriptorPool_", "descriptorSetLayout_"}
      [] obj \in {"commandBuffers_", "singleTimeCommandBuffer"} -> {"device_", "commandPool_"}
      [] OTHER -> {"device_"}

\* the memory vkBindBufferMemory / vkBindImageMemory attaches to the object
BoundTo(obj) ==
    CASE obj = "stagingBuffer" -> {"stagingBufferMemory"}
      [] obj = "textureImage_" -> {"textureImageMemory_"}
      [] obj = "vertexBuffer_" -> {"vertexBufferMemory_"}
      [] obj = "indexBuffer_" -> {"indexBufferMemory_"}
      [] obj = "uniformBuffers_" -> {"uniformBuffersMemory_"}
      [] OTHER -> {}

\* the handles the commands recorded into a command buffer name, and the
\* buffers vkUpdateDescriptorSets writes into a descriptor set
RecordedFrom(obj) ==
    CASE obj = "commandBuffers_" ->
            {"renderPass_", "swapChainFrameBuffers_", "graphicsPipeline_", "vertexBuffer_",
             "indexBuffer_", "pipelineLayout_", "descriptorSets_"}
      [] obj = "descriptorSets_" -> {"uniformBuffers_"}
      [] OTHER -> {}

\* what is freed together with a pool
OwnedBy(pool) ==
    CASE pool = "descriptorPool_" -> {"descriptorSets_"}
      [] pool = "commandPool_" -> {"commandBuffers_", "singleTimeCommandBuffer"}
      [] OTHER -> {}

Procedures == {"initVulkan", "recreateSwapChain", "cleanup"}

Body(proc) ==
    CASE proc = "initVulkan" -> initVulkan
      [] proc = "recreateSwapChain" -> recreateSwapChain
      [] proc = "cleanup" -> cleanup

\* where control goes when a procedure returns
ReturnTo(proc) ==
    CASE proc = "initVulkan" -> "mainLoop"
      [] proc = "recreateSwapChain" -> "drawFrame_advance"
      [] proc = "cleanup" -> "run_returned"

\* the vectors sized to the swapchain image count
PerImageVectors ==
    {"swapChainImages_", "swapChainImageViews_", "swapChainFrameBuffers_", "commandBuffers_",
     "uniformBuffers_", "uniformBuffersMemory_", "descriptorSets_"}

\* ---------------------------------------------------------------------------
\* VulkanUtils: swapchain format and present mode selection
\* ---------------------------------------------------------------------------
\* longest list a driver reports in the model
MaxListLen == 3

\* all sequences over S of length lo .. hi
SeqsOf(S, lo, hi) == UNION { [1 .. n -> S] : n \in lo .. hi }
Range(seq) == { seq[k] : k \in 1 .. Len(seq) }
MinOf(S) == CHOOSE x \in S : \A y \in S : x <= y

VkSurfaceFormatKHR(format, colorSpace) == [format |-> format, colorSpace |-> colorSpace]

SurfaceFormats ==
    { VkSurfaceFormatKHR(f, c) :
        f \in {"VK_FORMAT_B8G8R8A8_SRGB", "VK_FORMAT_B8G8R8A8_UNORM"},
        c \in {"VK_COLORSPACE_SRGB_NONLINEAR_KHR", "VK_COLOR_SPACE_EXTENDED_SRGB_LINEAR_EXT"} }

PresentModes == {"VK_PRESENT_MODE_IMMEDIATE_KHR", "VK_PRESENT_MODE_MAILBOX_KHR",
                 "VK_PRESENT_MODE_FIFO_KHR", "VK_PRESENT_MODE_FIFO_RELAXED_KHR"}

\* index of the first element the range-for loop returns on, given the
\* indices of the elements that pass its test; 0 when it runs out
FirstIndex(hits) == IF hits = {} THEN 0 ELSE MinOf(hits)

\* a selection that looks at the format only
chooseSwapSurfaceFormatByFormatOnly(formats) ==
    LET Wanted(f) == f.format = "VK_FORMAT_B8G8R8A8_SRGB"
        k == FirstIndex({ j \in 1 .. Len(formats) : Wanted(formats[j]) })
    IN IF k # 0 THEN formats[k] ELSE formats[1]

\* VulkanUtils::chooseSwapSurfaceFormat; the list is not empty
chooseSwapSurfaceFormat(formats) ==
    LET Wanted(f) == /\ f.format = "VK_FORMAT_B8G8R8A8_SRGB"
                     /\ f.colorSpace = "VK_COLORSPACE_SRGB_NONLINEAR_KHR"
        k == FirstIndex({ j \in 1 .. Len(formats) : Wanted(formats[j]) })
    IN IF k # 0 THEN formats[k] ELSE formats[1]

\* a selection without the search for the mailbox mode
chooseSwapPresentModeAlwaysFifo(modes) == "VK_PRESENT_MODE_FIFO_KHR"

\* VulkanUtils::chooseSwapPresentMode
chooseSwapPresentMode(modes) ==
    LET Wanted(m) == m = "VK_PRESENT_MODE_MAILBOX_KHR"
        k == FirstIndex({ j \in 1 .. Len(modes) : Wanted(modes[j]) })
    IN IF k # 0 THEN modes[k] ELSE "VK_PRESENT_MODE_FIFO_KHR"

\* ---------------------------------------------------------------------------
\* VulkanUtils: swapchain extent selection
\* ---------------------------------------------------------------------------
\* A uint32_t is the pair << high 16 bits, low 16 bits >>, compared as
\* unsigned; an int is a number in -2^31 .. 2^31 - 1.
Half == 65536
UINT32_MAX == << Half - 1, Half - 1 >>

\* static_cast<uint32_t>(int): the value modulo 2^32
ToUint32(i) == << (i \div Half) % Half, i % Half >>

ULess(a, b) == a[1] < b[1] \/ (a[1] = b[1] /\ a[2] < b[2])
ULeq(a, b) == ~ULess(b, a)

\* std::min, std::max on uint32_t
StdMin(a, b) == IF ULess(b, a) THEN b ELSE a
StdMax(a, b) == IF ULess(a, b) THEN b ELSE a

VkExtent2D(w, h) == [width |-> w, height |-> h]

\* largest extent a surface or a window reports in the model
MaxExtent == 2

ExtentValues == { ToUint32(v) : v \in 0 .. MaxExtent } \cup {UINT32_MAX}
\* glfwGetFramebufferSize writes ints
WindowSizes == -1 .. (MaxExtent + 1)

\* currentExtent is the extent of the surface or the special value
\* (0xFFFFFFFF, 0xFFFFFFFF); the mixed values are drawn as well
SurfaceCapabilities ==
    [ currentExtent : { VkExtent2D(w, h) : w \in {ToUint32(1), UINT32_MAX},
                                           h \in {ToUint32(1), UINT32_MAX} },
      minImageExtent : { VkExtent2D(w, h) : w \in ExtentValues, h \in ExtentValues },
      maxImageExtent : { VkExtent2D(w, h) : w \in ExtentValues, h \in ExtentValues } ]

\* extent selection that bounds the window size from below only
chooseSwapExtentNoUpperBound(caps, size) ==
    IF caps.currentExtent.width # UINT32_MAX
    THEN caps.currentExtent
    ELSE VkExtent2D(StdMax(caps.minImageExtent.width, ToUint32(size[1])),
                    StdMax(caps.minImageExtent.height, ToUint32(size[2])))

\* extent selection that clamps currentExtent as well
chooseSwapExtentClampsCurrent(caps, size) ==
    LET chosen == IF caps.currentExtent.width # UINT32_MAX
                  THEN caps.currentExtent
                  ELSE VkExtent2D(ToUint32(size[1]), ToUint32(size[2]))
    IN VkExtent2D(StdMax(caps.minImageExtent.width,
                         StdMin(caps.maxImageExtent.width, chosen.width)),
                  StdMax(caps.minImageExtent.height,
                         StdMin(caps.maxImageExtent.height, chosen.height)))

\* the body of VulkanUtils::chooseSwapExtent; size is what
\* glfwGetFramebufferSize reports
chooseSwapExtent(caps, size) ==
    IF caps.currentExtent.width # UINT32_MAX
    THEN caps.currentExtent
    ELSE VkExtent2D(StdMax(caps.minImageExtent.width,
                           StdMin(caps.maxImageExtent.width, ToUint32(size[1]))),
                    StdMax(caps.minImageExtent.height,
                           StdMin(caps.maxImageExtent.height, ToUint32(size[2]))))

\* ---------------------------------------------------------------------------
\* VulkanUtils: queue families and device suitability
\* ---------------------------------------------------------------------------
\* std::optional<uint32_t> without a value
nullopt == -1
has_value(opt) == opt # nullopt

QueueFamilyIndices(graphics, present) == [graphicsFamily |-> graphics, presentFamily |-> present]

\* a completeness test that looks at the graphics family only
isCompleteGraphicsOnly(indices) == has_value(indices.graphicsFamily)

\* QueueFamilyIndices::isComplete
isComplete(indices) == has_value(indices.graphicsFamily) /\ has_value(indices.presentFamily)

\* a queue family: VK_QUEUE_GRAPHICS_BIT of its queueFlags, and what
\* vkGetPhysicalDeviceSurfaceSupportKHR reports for it
QueueFamilies == [graphics : BOOLEAN, present : BOOLEAN]

\* the range-for loop of findQueueFamilies from family number index on
RECURSIVE findQueueFamiliesFrom(_, _, _)
findQueueFamiliesFrom(families, index, indices) ==
    IF index >= Len(families)
    THEN indices
    ELSE LET queueFamily == families[index + 1]
             updated == QueueFamilyIndices(
                            IF queueFamily.graphics THEN index ELSE indices.graphicsFamily,
                            IF queueFamily.present THEN index ELSE indices.presentFamily)
         IN IF isComplete(updated)
            THEN updated
            ELSE findQueueFamiliesFrom(families, index + 1, updated)

\* VulkanUtils::findQueueFamilies
findQueueFamilies(families) ==
    findQueueFamiliesFrom(families, 0, QueueFamilyIndices(nullopt, nullopt))

gDeviceExtensions == {"VK_KHR_swapchain"}
ExtensionNames == {"VK_KHR_swapchain", "VK_KHR_maintenance1"}

\* VulkanUtils::checkDeviceExtensionSupported: a std::set<std::string> of the
\* required names, from which every available name is erased
checkDeviceExtensionSupported(extensions) ==
    gDeviceExtensions \ Range(extensions) = {}

\* main.cpp compares extension.extensionName == extensionName: the address of
\* the char array inside the vector element against the address of the string
\* literal
ArrayAddress(k) == << "availableExtensions", k >>
LiteralAddress(name) == << "literal", name >>

\* checkDeviceExtensionSupported of main.cpp
checkDeviceExtensionSupported_main(extensions) ==
    \A extensionName \in gDeviceExtensions :
        \E k \in 1 .. Len(extensions) : ArrayAddress(k) = LiteralAddress(extensionName)

\* isSwapChainAdequate of isDeviceSuitable
isSwapChainAdequate(extensionSupported, formats, modes) ==
    extensionSupported /\ formats # << >> /\ modes # << >>

\* VulkanUtils::isDeviceSuitable
isDeviceSuitable(families, extensions, formats, modes, anisotropy) ==
    LET isExtensionSupported == checkDeviceExtensionSupported(extensions)
    IN /\ isComplete(findQueueFamilies(families))
       /\ isExtensionSupported
       /\ isSwapChainAdequate(isExtensionSupported, formats, modes)
       /\ anisotropy

\* isDeviceSuitable of main.cpp
isDeviceSuitable_main(families, extensions, formats, modes) ==
    LET isExtensionSupported == checkDeviceExtensionSupported_main(extensions)
    IN /\ isComplete(findQueueFamilies(families))
       /\ isExtensionSupported
       /\ isSwapChainAdequate(isExtensionSupported, formats, modes)

\* ---------------------------------------------------------------------------
\* State
\* ---------------------------------------------------------------------------
VARIABLES
    pc,                  \* position of the CPU thread
    ip,                  \* index of the next step while pc is one of Procedures
    alive,               \* objects created and not yet destroyed
    vecLen,              \* size() of each per-image vector
    imagesInFlight_,     \* std::vector<VkFence>: NullHandle or the slot of the fence
    inFlightFences_,     \* state of the fence of each slot
    currentFrameIndex_,
    frameBufferResized_,
    imageIndex,          \* local of drawFrame
    acquireResult,       \* VkResult of vkAcquireNextImageKHR in this frame
    presentResult,       \* VkResult of vkQueuePresentKHR in this frame
    uboWritten,          \* image whose uniform buffer this frame wrote
    syncSteps,           \* the synchronization calls this drawFrame has made, in order
    width, height,       \* locals of recreateSwapChain
    fbSize,              \* what glfwGetFramebufferSize reports
    shouldClose,         \* glfwWindowShouldClose
    gpuQueue,            \* submissions the GPU has not retired, oldest first
    framesDone,          \* completed drawFrame calls
    flagSeen,            \* frameBufferResized_ as read by the test after present
    recreateCalled,      \* this frame called recreateSwapChain
    creationFailed,      \* a creation call has returned a non-success code
    fatalLogged,         \* LOG_FATAL has been called
    raised,              \* an exception left run()
    phasesDone,          \* the parts of run() that have returned
    exitCode,            \* what main returned
    callee,              \* the VulkanUtils function under evaluation, "none" in the application
    queueFamilies,       \* what vkGetPhysicalDeviceQueueFamilyProperties / SurfaceSupport report
    availableExtensions, \* what vkEnumerateDeviceExtensionProperties reports
    samplerAnisotropy,   \* VkPhysicalDeviceFeatures::samplerAnisotropy
    availableFormats,    \* SwapChainSupportDetails::formats
    availablePresentModes, \* SwapChainSupportDetails::presentModes
    capabilities,        \* SwapChainSupportDetails::capabilities
    memoryTypes,         \* VkPhysicalDeviceMemoryProperties::memoryTypes[0 .. memoryTypeCount - 1]
    typeFilter,          \* argument of findMemoryType: memoryTypeBits of the resource
    properties,          \* argument of findMemoryType: the required property flags
    vertShaderModule,    \* locals of createGraphicsPipeline: what createShaderModule
    fragShaderModule,    \* returned for vert.spv and for frag.spv
    returned,            \* << the value the function returned >>, << >> before it has
    imageAvailableSemaphore_,  \* signal operations on the semaphore not yet waited for
    renderFinishedSemaphore_   \* (the snapshot with one semaphore pair and no fences)

appVars == << pc, ip, alive, vecLen, imagesInFlight_, inFlightFences_, currentFrameIndex_,
           frameBufferResized_, imageIndex, acquireResult, presentResult, uboWritten,
           syncSteps, width, height, fbSize, shouldClose, gpuQueue, framesDone,
           flagSeen, recreateCalled, creationFailed, fatalLogged, raised, phasesDone,
           exitCode >>

\* the inputs and the result of the device-query helpers
queryVars == << callee, queueFamilies, availableExtensions, samplerAnisotropy,
               availableFormats, availablePresentModes, capabilities, memoryTypes,
               typeFilter, properties, vertShaderModule, fragShaderModule, returned >>

\* the semaphore pair of the snapshot without fences
snapshotVars == << imageAvailableSemaphore_, renderFinishedSemaphore_ >>

vars == << appVars, queryVars, snapshotVars >>

windowVars == << fbSize, shouldClose, frameBufferResized_ >>
frameVars == << imageIndex, acquireResult, presentResult, uboWritten, flagSeen,
                recreateCalled, syncSteps >>
syncVars == << imagesInFlight_, inFlightFences_, gpuQueue >>
errorVars == << creationFailed, fatalLogged, raised >>
localVars == << width, height >>

\* the application evaluates no helper on its own in this model
QueryIdle ==
    /\ callee = "none"
    /\ queueFamilies = << >>
    /\ availableExtensions = << >>
    /\ samplerAnisotropy = FALSE
    /\ availableFormats = << >>
    /\ availablePresentModes = << >>
    /\ capabilities = "none"
    /\ memoryTypes = << >>
    /\ typeFilter = 0
    /\ properties = 0
    /\ vertShaderModule = NullHandle
    /\ fragShaderModule = NullHandle
    /\ returned = << >>

\* semaphores are created unsignaled, with no signal operation pending
SemaphoresIdle ==
    /\ imageAvailableSemaphore_ = 0
    /\ renderFinishedSemaphore_ = 0

Init ==
    /\ pc = "initWindow"
    /\ ip = 0
    /\ alive = {}
    /\ vecLen = [v \in PerImageVectors |-> 0]
    /\ imagesInFlight_ = << >>
    /\ inFlightFences_ = [s \in Slots |-> "null"]
    /\ currentFrameIndex_ = 0
    /\ frameBufferResized_ = FALSE
    /\ imageIndex = 0
    /\ acquireResult = "none"
    /\ presentResult = "none"
    /\ uboWritten = NullHandle
    /\ syncSteps = << >>
    /\ width = 0
    /\ height = 0
    /\ fbSize = << WIDTH, HEIGHT >>
    /\ shouldClose = FALSE
    /\ gpuQueue = << >>
    /\ framesDone = 0
    /\ flagSeen = FALSE
    /\ recreateCalled = FALSE
    /\ creationFailed = FALSE
    /\ fatalLogged = FALSE
    /\ raised = FALSE
    /\ phasesDone = {}
    /\ exitCode = "none"
    /\ QueryIdle
    /\ SemaphoresIdle

\* ---------------------------------------------------------------------------
\* Logging and error propagation
\* ---------------------------------------------------------------------------
\* a log call that returns to its caller at every level
LogNeverThrows(level) == FALSE

\* LogSystem::log: the fatal level calls fatalCallback, which throws
LogThrows(level) == level = "fatal"

\* LOG_FATAL(...) at the current position; next is where control would go on
LOG_FATAL(nextPc, nextIp) ==
    /\ fatalLogged' = TRUE
    /\ IF LogThrows("fatal")
       THEN /\ pc' = "thrown"
            /\ raised' = TRUE
            /\ ip' = ip
       ELSE /\ pc' = nextPc
            /\ ip' = nextIp
            /\ raised' = raised

\* ---------------------------------------------------------------------------
\* run, main
\* ---------------------------------------------------------------------------
initWindow ==
    /\ pc = "initWindow"
    /\ pc' = "initVulkan"
    /\ ip' = 1
    /\ alive' = alive \cup {"window_"}
    /\ phasesDone' = phasesDone \cup {"initWindow"}
    /\ UNCHANGED << vecLen, currentFrameIndex_, framesDone, exitCode >>
    /\ UNCHANGED << windowVars, frameVars, syncVars, errorVars, localVars >>
    /\ UNCHANGED << queryVars, snapshotVars >>

\* main: run() returned normally
main_return ==
    /\ pc = "run_returned"
    /\ pc' = "exited"
    /\ exitCode' = "EXIT_SUCCESS"
    /\ UNCHANGED << ip, alive, vecLen, currentFrameIndex_, framesDone, phasesDone >>
    /\ UNCHANGED << windowVars, frameVars, syncVars, errorVars, localVars >>
    /\ UNCHANGED << queryVars, snapshotVars >>

\* main: catch (const std::exception&)
main_catch ==
    /\ pc = "thrown"
    /\ pc' = "exited"
    /\ exitCode' = "EXIT_FAILURE"
    /\ UNCHANGED << ip, alive, vecLen, currentFrameIndex_, framesDone, phasesDone >>
    /\ UNCHANGED << windowVars, frameVars, syncVars, errorVars, localVars >>
    /\ UNCHANGED << queryVars, snapshotVars >>

\* ---------------------------------------------------------------------------
\* The steps of initVulkan, recreateSwapChain (after its loop) and cleanup
\* ---------------------------------------------------------------------------
InProcedure == pc \in Procedures /\ ip \in 1 .. Len(Body(pc))
CurOp == Body(pc)[ip]
AtEnd == ip = Len(Body(pc))
NextPc == IF AtEnd THEN ReturnTo(pc) ELSE pc
NextIp == IF AtEnd THEN 0 ELSE ip + 1
PhasesAfter == IF AtEnd /\ pc # "recreateSwapChain" THEN phasesDone \cup {pc} ELSE phasesDone

StepOn ==
    /\ pc' = NextPc
    /\ ip' = NextIp
    /\ phasesDone' = PhasesAfter

\* effect of a successful creation call on the object table and the fences
Created(obj) ==
    /\ alive' = IF obj = "" THEN alive ELSE alive \cup {obj}
    /\ inFlightFences_' = IF obj = "inFlightFences_"
                          THEN [s \in Slots |-> "signaled"]
                          ELSE inFlightFences_

\* a call that can fail: vkCreate*, vkAllocate*, vkBind*, and the conditions
\* that end in LOG_FATAL
FallibleCall ==
    /\ InProcedure
    /\ CurOp.kind \in {"create", "call"}
    /\ \E ok \in BOOLEAN :
          IF ok \/ (CurOp.kind = "call" /\ ~CurOp.checked)
          THEN /\ Created(CurOp.obj)
               /\ StepOn
               /\ UNCHANGED errorVars
          ELSE /\ creationFailed' = (creationFailed \/ CurOp.kind = "create")
               /\ IF CurOp.checked
                  THEN /\ LOG_FATAL(NextPc, NextIp)
                       /\ phasesDone' = IF LogThrows("fatal") THEN phasesDone ELSE PhasesAfter
                  ELSE /\ StepOn
                       /\ UNCHANGED << fatalLogged, raised >>
               /\ UNCHANGED << alive, inFlightFences_ >>
    /\ UNCHANGED << vecLen, imagesInFlight_, gpuQueue, currentFrameIndex_, framesDone, exitCode >>
    /\ UNCHANGED << windowVars, frameVars, localVars >>
    /\ UNCHANGED << queryVars, snapshotVars >>

\* vkDestroy*, vkFree*
DestroyCall ==
    /\ InProcedure
    /\ CurOp.kind = "destroy"
    /\ alive' = alive \ ({CurOp.obj} \cup OwnedBy(CurOp.obj))
    /\ inFlightFences_' = IF CurOp.obj = "inFlightFences_"
                          THEN [s \in Slots |-> "destroyed"]
                          ELSE inFlightFences_
    /\ StepOn
    /\ UNCHANGED << vecLen, imagesInFlight_, gpuQueue, currentFrameIndex_, framesDone, exitCode >>
    /\ UNCHANGED << windowVars, frameVars, errorVars, localVars >>
    /\ UNCHANGED << queryVars, snapshotVars >>

\* vkGetSwapchainImagesKHR and swapChainImages_.resize(imageCount)
GetSwapchainImages ==
    /\ InProcedure
    /\ CurOp.kind = "images"
    /\ \E imageCount \in ImageCounts :
          vecLen' = [vecLen EXCEPT !["swapChainImages_"] = imageCount]
    /\ StepOn
    /\ UNCHANGED << alive, currentFrameIndex_, framesDone, exitCode >>
    /\ UNCHANGED << windowVars, frameVars, syncVars, errorVars, localVars >>
    /\ UNCHANGED << queryVars, snapshotVars >>

\* v.resize(src.size()) of a per-image vector; imagesInFlight_ is filled with nullptr
ResizeVector ==
    /\ InProcedure
    /\ CurOp.kind = "resize"
    /\ IF CurOp.obj = "imagesInFlight_"
       THEN /\ imagesInFlight_' = Resize(imagesInFlight_, vecLen[CurOp.api], NullHandle)
            /\ vecLen' = vecLen
       ELSE /\ vecLen' = [vecLen EXCEPT ![CurOp.obj] = vecLen[CurOp.api]]
            /\ imagesInFlight_' = imagesInFlight_
    /\ StepOn
    /\ UNCHANGED << alive, inFlightFences_, gpuQueue, currentFrameIndex_, framesDone, exitCode >>
    /\ UNCHANGED << windowVars, frameVars, errorVars, localVars >>
    /\ UNCHANGED << queryVars, snapshotVars >>

\* endSingleTimeCommands: vkQueueSubmit without a fence
SubmitSingleTime ==
    /\ InProcedure
    /\ CurOp.kind = "submit"
    /\ gpuQueue' = Append(gpuQueue, [fence |-> NullHandle, image |-> NullHandle,
                                     stale |-> FALSE])
    /\ StepOn
    /\ UNCHANGED << alive, vecLen, imagesInFlight_, inFlightFences_,
                    currentFrameIndex_, framesDone, exitCode >>
    /\ UNCHANGED << windowVars, frameVars, errorVars, localVars >>
    /\ UNCHANGED << queryVars, snapshotVars >>

\* vkQueueWaitIdle, vkDeviceWaitIdle: returns once the GPU has retired everything
WaitIdle ==
    /\ InProcedure
    /\ CurOp.kind = "waitidle"
    /\ gpuQueue = << >>
    /\ StepOn
    /\ UNCHANGED << alive, vecLen, currentFrameIndex_, framesDone, exitCode >>
    /\ UNCHANGED << windowVars, frameVars, syncVars, errorVars, localVars >>
    /\ UNCHANGED << queryVars, snapshotVars >>

\* ---------------------------------------------------------------------------
\* Window events
\* ---------------------------------------------------------------------------
\* VulkanApp::frameBufferResizeCallback
frameBufferResizeCallback(resized) == TRUE

\* what one call of glfwPollEvents can deliver; glfwWaitEvents returns only
\* after at least one event, "input" standing for any event the application
\* has no callback for
PollableEvents == {<<"none", 0, 0>>, <<"close", 0, 0>>, <<"input", 0, 0>>}
                  \cup {<<"resize", s[1], s[2]>> : s \in FbSizes}
WaitableEvents == PollableEvents \ {<<"none", 0, 0>>}

Deliver(ev) ==
    /\ fbSize' = IF ev[1] = "resize" THEN <<ev[2], ev[3]>> ELSE fbSize
    /\ frameBufferResized_' = IF ev[1] = "resize"
                              THEN frameBufferResizeCallback(frameBufferResized_)
                              ELSE frameBufferResized_
    /\ shouldClose' = (shouldClose \/ ev[1] = "close")

\* ---------------------------------------------------------------------------
\* mainLoop
\* ---------------------------------------------------------------------------
\* while (glfwWindowShouldClose(window_) == 0)
mainLoop_test ==
    /\ pc = "mainLoop"
    /\ pc' = IF shouldClose THEN "mainLoop_waitIdle" ELSE "mainLoop_pollEvents"
    /\ UNCHANGED << ip, alive, vecLen, currentFrameIndex_, framesDone, phasesDone, exitCode >>
    /\ UNCHANGED << windowVars, frameVars, syncVars, errorVars, localVars >>
    /\ UNCHANGED << queryVars, snapshotVars >>

glfwPollEvents ==
    /\ pc = "mainLoop_pollEvents"
    /\ \E ev \in PollableEvents : Deliver(ev)
    /\ pc' = "drawFrame_waitFence"
    /\ UNCHANGED << ip, alive, vecLen, currentFrameIndex_, framesDone, phasesDone, exitCode >>
    /\ UNCHANGED << frameVars, syncVars, errorVars, localVars >>
    /\ UNCHANGED << queryVars, snapshotVars >>

\* vkDeviceWaitIdle(device_) after the loop, then run() calls cleanup()
mainLoop_waitIdle ==
    /\ pc = "mainLoop_waitIdle"
    /\ gpuQueue = << >>
    /\ pc' = "cleanup"
    /\ ip' = 1
    /\ phasesDone' = phasesDone \cup {"mainLoop"}
    /\ UNCHANGED << alive, vecLen, currentFrameIndex_, framesDone, exitCode >>
    /\ UNCHANGED << windowVars, frameVars, syncVars, errorVars, localVars >>
    /\ UNCHANGED << queryVars, snapshotVars >>

\* ---------------------------------------------------------------------------
\* drawFrame
\* ---------------------------------------------------------------------------
\* one synchronization call of drawFrame: the fence it waits on, resets or
\* signals, and the slot of the semaphore it signals or waits on
SyncStep(api, fence, semaphore) == [api |-> api, fence |-> fence, semaphore |-> semaphore]

ImageAcquired(result) == result \in {"VK_SUCCESS", "VK_SUBOPTIMAL_KHR"}

\* vkWaitForFences(device_, 1, &inFlightFences_[currentFrameIndex_], VK_TRUE, UINT16_MAX)
drawFrame_waitFence ==
    /\ pc = "drawFrame_waitFence"
    /\ framesDone < MaxFrames
    /\ \/ inFlightFences_[currentFrameIndex_] = "signaled"
       \/ /\ inFlightFences_[currentFrameIndex_] # "signaled"
          /\ MayTimeOut(SlotFenceTimeout)
    /\ pc' = "drawFrame_acquire"
    /\ syncSteps' = Append(syncSteps, SyncStep("vkWaitForFences", currentFrameIndex_, NullHandle))
    /\ UNCHANGED << ip, alive, vecLen, currentFrameIndex_, framesDone, phasesDone, exitCode >>
    /\ UNCHANGED << imageIndex, acquireResult, presentResult, uboWritten, flagSeen, recreateCalled >>
    /\ UNCHANGED << windowVars, syncVars, errorVars, localVars >>
    /\ UNCHANGED << queryVars, snapshotVars >>

\* vkAcquireNextImageKHR; the VkResult is dropped, imageIndex keeps its
\* initial 0 when no image is returned
drawFrame_acquire ==
    /\ pc = "drawFrame_acquire"
    /\ \E result \in AcquireResults :
          /\ acquireResult' = result
          /\ IF ImageAcquired(result)
             THEN imageIndex' \in 0 .. (vecLen["swapChainImages_"] - 1)
             ELSE imageIndex' = 0
    /\ pc' = "drawFrame_waitImage"
    /\ syncSteps' = Append(syncSteps, SyncStep("vkAcquireNextImageKHR", NullHandle,
                                               currentFrameIndex_))
    /\ UNCHANGED << ip, alive, vecLen, currentFrameIndex_, framesDone, phasesDone, exitCode >>
    /\ UNCHANGED << presentResult, uboWritten, flagSeen, recreateCalled >>
    /\ UNCHANGED << windowVars, syncVars, errorVars, localVars >>
    /\ UNCHANGED << queryVars, snapshotVars >>

\* if (imagesInFlight_[imageIndex] != VK_NULL_HANDLE) vkWaitForFences(..., UINT64_MAX);
\* imagesInFlight_[imageIndex] = inFlightFences_[currentFrameIndex_];
drawFrame_waitImage ==
    /\ pc = "drawFrame_waitImage"
    /\ IF imageIndex >= Len(imagesInFlight_)
       THEN /\ pc' = "crashed"
            /\ imagesInFlight_' = imagesInFlight_
            /\ syncSteps' = syncSteps
       ELSE /\ \/ imagesInFlight_[imageIndex + 1] = NullHandle
               \/ /\ imagesInFlight_[imageIndex + 1] # NullHandle
                  /\ \/ inFlightFences_[imagesInFlight_[imageIndex + 1]] = "signaled"
                     \/ MayTimeOut(ImageFenceTimeout)
            /\ imagesInFlight_' = [imagesInFlight_ EXCEPT ![imageIndex + 1] = currentFrameIndex_]
            /\ syncSteps' = IF imagesInFlight_[imageIndex + 1] = NullHandle
                            THEN syncSteps
                            ELSE Append(syncSteps, SyncStep("vkWaitForFences(image)",
                                                            imagesInFlight_[imageIndex + 1],
                                                            NullHandle))
            /\ pc' = "drawFrame_resetFence"
    /\ UNCHANGED << ip, alive, vecLen, currentFrameIndex_, framesDone, phasesDone, exitCode >>
    /\ UNCHANGED << inFlightFences_, gpuQueue >>
    /\ UNCHANGED << imageIndex, acquireResult, presentResult, uboWritten, flagSeen, recreateCalled >>
    /\ UNCHANGED << windowVars, errorVars, localVars >>
    /\ UNCHANGED << queryVars, snapshotVars >>

\* vkResetFences(device_, 1, &inFlightFences_[currentFrameIndex_]); a submission
\* still pending with this fence loses its claim on it
drawFrame_resetFence ==
    /\ pc = "drawFrame_resetFence"
    /\ inFlightFences_' = [inFlightFences_ EXCEPT ![currentFrameIndex_] = "unsignaled"]
    /\ gpuQueue' = [k \in 1 .. Len(gpuQueue) |->
                       IF gpuQueue[k].fence = currentFrameIndex_
                       THEN [gpuQueue[k] EXCEPT !.stale = TRUE]
                       ELSE gpuQueue[k]]
    /\ pc' = "drawFrame_updateUniform"
    /\ syncSteps' = Append(syncSteps, SyncStep("vkResetFences", currentFrameIndex_, NullHandle))
    /\ UNCHANGED << ip, alive, vecLen, currentFrameIndex_, framesDone, phasesDone, exitCode >>
    /\ UNCHANGED << imagesInFlight_ >>
    /\ UNCHANGED << imageIndex, acquireResult, presentResult, uboWritten, flagSeen, recreateCalled >>
    /\ UNCHANGED << windowVars, errorVars, localVars >>
    /\ UNCHANGED << queryVars, snapshotVars >>

\* updateUniformBuffer(imageIndex)
updateUniformBuffer ==
    /\ pc = "drawFrame_updateUniform"
    /\ uboWritten' = imageIndex
    /\ pc' = "drawFrame_submit"
    /\ UNCHANGED << ip, alive, vecLen, currentFrameIndex_, framesDone, phasesDone, exitCode >>
    /\ UNCHANGED << imageIndex, acquireResult, presentResult, flagSeen, recreateCalled,
                    syncSteps >>
    /\ UNCHANGED << windowVars, syncVars, errorVars, localVars >>
    /\ UNCHANGED << queryVars, snapshotVars >>

\* a submit that passes no fence
SubmitStepWithoutFence(slot) == SyncStep("vkQueueSubmit", NullHandle, slot)

\* the fence and the signal semaphore of the vkQueueSubmit of drawFrame
SubmitStep(slot) == SyncStep("vkQueueSubmit", slot, slot)

\* vkQueueSubmit(graphicsQueue_, 1, &submitInfo, inFlightFences_[currentFrameIndex_])
drawFrame_submit ==
    /\ pc = "drawFrame_submit"
    /\ \E ok \in BOOLEAN :
          IF ok
          THEN /\ gpuQueue' = Append(gpuQueue, [fence |-> SubmitStep(currentFrameIndex_).fence,
                                                image |-> imageIndex,
                                                stale |-> FALSE])
               /\ syncSteps' = Append(syncSteps, SubmitStep(currentFrameIndex_))
               /\ pc' = "drawFrame_present"
               /\ UNCHANGED << ip, errorVars >>
          ELSE /\ LOG_FATAL("drawFrame_present", 0)
               /\ UNCHANGED << gpuQueue, creationFailed, syncSteps >>
    /\ UNCHANGED << alive, vecLen, currentFrameIndex_, framesDone, phasesDone, exitCode >>
    /\ UNCHANGED << imagesInFlight_, inFlightFences_ >>
    /\ UNCHANGED << imageIndex, acquireResult, presentResult, uboWritten, flagSeen, recreateCalled >>
    /\ UNCHANGED << windowVars, localVars >>
    /\ UNCHANGED << queryVars, snapshotVars >>

\* the test without the suboptimal case
NeedsRecreateOutOfDateOnly(result, resized) ==
    result = "VK_ERROR_OUT_OF_DATE_KHR" \/ resized

\* the test that follows vkQueuePresentKHR
NeedsRecreate(result, resized) ==
    result = "VK_ERROR_OUT_OF_DATE_KHR" \/ result = "VK_SUBOPTIMAL_KHR" \/ resized

\* vkQueuePresentKHR and the branch on its result
drawFrame_present ==
    /\ pc = "drawFrame_present"
    /\ \E result \in PresentResults :
          /\ presentResult' = result
          /\ flagSeen' = frameBufferResized_
          /\ syncSteps' = Append(syncSteps, SyncStep("vkQueuePresentKHR", NullHandle,
                                                     currentFrameIndex_))
          /\ IF NeedsRecreate(result, frameBufferResized_)
             THEN /\ frameBufferResized_' = FALSE
                  /\ recreateCalled' = TRUE
                  /\ pc' = "recreateSwapChain_getSize"
                  /\ UNCHANGED << ip, errorVars >>
             ELSE /\ IF result # "VK_SUCCESS"
                     THEN /\ LOG_FATAL("drawFrame_advance", 0)
                          /\ UNCHANGED creationFailed
                     ELSE /\ pc' = "drawFrame_advance"
                          /\ UNCHANGED << ip, errorVars >>
                  /\ UNCHANGED << frameBufferResized_, recreateCalled >>
    /\ UNCHANGED << alive, vecLen, currentFrameIndex_, framesDone, phasesDone, exitCode >>
    /\ UNCHANGED << imageIndex, acquireResult, uboWritten >>
    /\ UNCHANGED << fbSize, shouldClose, syncVars, localVars >>
    /\ UNCHANGED << queryVars, snapshotVars >>

\* a drawFrame that returns right after recreateSwapChain, before the increment
NextFrameIndexUnlessRecreated(index) ==
    IF recreateCalled THEN index ELSE (index + 1) % MAX_FRAMES_IN_FLIGHT

\* currentFrameIndex_ = (currentFrameIndex_ + 1) % MAX_FRAMES_IN_FLIGHT; return
NextFrameIndex(index) == (index + 1) % MAX_FRAMES_IN_FLIGHT

drawFrame_advance ==
    /\ pc = "drawFrame_advance"
    /\ currentFrameIndex_' = NextFrameIndex(currentFrameIndex_)
    /\ framesDone' = framesDone + 1
    /\ imageIndex' = 0
    /\ acquireResult' = "none"
    /\ presentResult' = "none"
    /\ uboWritten' = NullHandle
    /\ syncSteps' = << >>
    /\ flagSeen' = FALSE
    /\ recreateCalled' = FALSE
    /\ width' = 0
    /\ height' = 0
    /\ pc' = "mainLoop"
    /\ UNCHANGED << ip, alive, vecLen, phasesDone, exitCode >>
    /\ UNCHANGED << windowVars, syncVars, errorVars >>
    /\ UNCHANGED << queryVars, snapshotVars >>

\* ---------------------------------------------------------------------------
\* recreateSwapChain: the minimization loop
\* ---------------------------------------------------------------------------
Minimized(w, h) == w = 0 \/ h = 0

AfterSizeTest(w, h) ==
    IF Minimized(w, h) THEN "recreateSwapChain_minimized" ELSE "recreateSwapChain"

\* glfwGetFramebufferSize(window_, &width, &height); while (width == 0 || height == 0)
\* (the locals of the calling drawFrame are not read again and are cleared here)
recreateSwapChain_getSize ==
    /\ pc = "recreateSwapChain_getSize"
    /\ width' = fbSize[1]
    /\ height' = fbSize[2]
    /\ pc' = AfterSizeTest(fbSize[1], fbSize[2])
    /\ ip' = IF Minimized(fbSize[1], fbSize[2]) THEN 0 ELSE 1
    /\ imageIndex' = 0
    /\ acquireResult' = "none"
    /\ presentResult' = "none"
    /\ uboWritten' = NullHandle
    /\ syncSteps' = << >>
    /\ flagSeen' = FALSE
    /\ UNCHANGED << alive, vecLen, currentFrameIndex_, framesDone, phasesDone, exitCode >>
    /\ UNCHANGED << recreateCalled, windowVars, syncVars, errorVars >>
    /\ UNCHANGED << queryVars, snapshotVars >>

\* the loop body: glfwGetFramebufferSize(window_, &width, &height); glfwWaitEvents();
\* followed by the loop test on width and height
SizeSeenByLoop(before, after) == before

recreateSwapChain_waitEvents ==
    /\ pc = "recreateSwapChain_minimized"
    /\ \E ev \in WaitableEvents :
          /\ Deliver(ev)
          /\ width' = SizeSeenByLoop(fbSize, fbSize')[1]
          /\ height' = SizeSeenByLoop(fbSize, fbSize')[2]
    /\ pc' = AfterSizeTest(width', height')
    /\ ip' = IF Minimized(width', height') THEN 0 ELSE 1
    /\ UNCHANGED << alive, vecLen, currentFrameIndex_, framesDone, phasesDone, exitCode >>
    /\ UNCHANGED << frameVars, syncVars, errorVars >>
    /\ UNCHANGED << queryVars, snapshotVars >>

\* ---------------------------------------------------------------------------
\* The GPU
\* ---------------------------------------------------------------------------
\* the oldest submission retires; its fence, if any, is signaled.  A
\* submission whose fence was reset while it was pending may or may not
\* signal it.
GpuComplete ==
    /\ gpuQueue # << >>
    /\ gpuQueue' = Tail(gpuQueue)
    /\ LET head == Head(gpuQueue) IN
          \E signals \in IF head.fence \in Slots
                         THEN (IF head.stale THEN BOOLEAN ELSE {TRUE})
                         ELSE {FALSE} :
             inFlightFences_' = IF signals
                                THEN [inFlightFences_ EXCEPT ![head.fence] = "signaled"]
                                ELSE inFlightFences_
    /\ UNCHANGED << pc, ip, alive, vecLen, imagesInFlight_, currentFrameIndex_, framesDone,
                    phasesDone, exitCode >>
    /\ UNCHANGED << windowVars, frameVars, errorVars, localVars >>
    /\ UNCHANGED << queryVars, snapshotVars >>

\* A creation call failed and its result was dropped: the handle the program
\* goes on to use is invalid, and the driver may fault at any later point.
Terminated == pc \in {"thrown", "exited", "crashed", "run_returned"}

UseOfInvalidHandle ==
    /\ creationFailed
    /\ ~Terminated
    /\ pc' = "crashed"
    /\ UNCHANGED << ip, alive, vecLen, currentFrameIndex_, framesDone, phasesDone, exitCode >>
    /\ UNCHANGED << windowVars, frameVars, syncVars, errorVars, localVars >>
    /\ UNCHANGED << queryVars, snapshotVars >>

\* ---------------------------------------------------------------------------
\* Specification
\* ---------------------------------------------------------------------------
Next ==
    \/ initWindow
    \/ FallibleCall
    \/ DestroyCall
    \/ GetSwapchainImages
    \/ ResizeVector
    \/ SubmitSingleTime
    \/ WaitIdle
    \/ mainLoop_test
    \/ glfwPollEvents
    \/ mainLoop_waitIdle
    \/ drawFrame_waitFence
    \/ drawFrame_acquire
    \/ drawFrame_waitImage
    \/ drawFrame_resetFence
    \/ updateUniformBuffer
    \/ drawFrame_submit
    \/ drawFrame_present
    \/ drawFrame_advance
    \/ recreateSwapChain_getSize
    \/ recreateSwapChain_waitEvents
    \/ GpuComplete
    \/ UseOfInvalidHandle
    \/ main_return
    \/ main_catch

Spec == Init /\ [][Next]_vars

\* The steps the CPU thread takes without waiting for the outside world: every
\* step of run() except glfwWaitEvents, which returns only when the window
\* system delivers an event.
CpuStep ==
    \/ initWindow
    \/ FallibleCall
    \/ DestroyCall
    \/ GetSwapchainImages
    \/ ResizeVector
    \/ SubmitSingleTime
    \/ WaitIdle
    \/ mainLoop_test
    \/ glfwPollEvents
    \/ mainLoop_waitIdle
    \/ drawFrame_waitFence
    \/ drawFrame_acquire
    \/ drawFrame_waitImage
    \/ drawFrame_resetFence
    \/ updateUniformBuffer
    \/ drawFrame_submit
    \/ drawFrame_present
    \/ drawFrame_advance
    \/ recreateSwapChain_getSize
    \/ main_return
    \/ main_catch

\* The thread keeps running and the GPU retires what is submitted to it.
SpecLive == Init /\ [][Next]_vars /\ WF_vars(CpuStep) /\ WF_vars(GpuComplete)

\* ---------------------------------------------------------------------------
\* createSwapChain: the number of images requested
\* ---------------------------------------------------------------------------
\* a + b on uint32_t: the sum modulo 2^32
UAdd(a, b) ==
    LET low == a[2] + b[2]
    IN << (a[1] + b[1] + (low \div Half)) % Half, low % Half >>

\* largest image count a surface reports in the model, next to 0xFFFFFFFF
MaxImageCount == 3

CountValues == { ToUint32(v) : v \in 0 .. MaxImageCount } \cup {UINT32_MAX}

\* what a driver may report: minImageCount is at least one, maxImageCount is
\* 0 (no limit) or at least minImageCount
ImageCountCapabilities ==
    { c \in [ minImageCount : CountValues \ {ToUint32(0)}, maxImageCount : CountValues ] :
        c.maxImageCount = ToUint32(0) \/ ULeq(c.minImageCount, c.maxImageCount) }

\* createInfo.minImageCount of createSwapChain: the value of the local imageCount
createInfo_minImageCount(caps) ==
    LET sum == UAdd(caps.minImageCount, ToUint32(1))
    IN IF ULess(ToUint32(0), caps.maxImageCount) /\ ULess(caps.maxImageCount, sum)
       THEN caps.maxImageCount
       ELSE sum

\* ---------------------------------------------------------------------------
\* findMemoryType
\* ---------------------------------------------------------------------------
\* a & b on unsigned values
RECURSIVE BitAnd(_, _)
BitAnd(a, b) ==
    IF a = 0 \/ b = 0
    THEN 0
    ELSE (a % 2) * (b % 2) + 2 * BitAnd(a \div 2, b \div 2)

\* most memory types a device reports in the model (VK_MAX_MEMORY_TYPES is 32)
MaxMemoryTypes == 3
\* largest VkMemoryPropertyFlags value in the model: DEVICE_LOCAL is 1,
\* HOST_VISIBLE is 2
MaxPropertyFlags == 3

MemoryPropertyFlags == 0 .. MaxPropertyFlags
TypeFilters == 0 .. (2 ^ MaxMemoryTypes - 1)

\* a findMemoryType that takes the first type with the properties, whatever
\* the filter says
RECURSIVE findMemoryTypeAnyType(_, _, _, _)
findMemoryTypeAnyType(index, filter, props, types) ==
    IF index >= Len(types)
    THEN [raised |-> LogThrows("fatal"), index |-> 0]
    ELSE IF BitAnd(types[index + 1], props) = props
         THEN [raised |-> FALSE, index |-> index]
         ELSE findMemoryTypeAnyType(index + 1, filter, props, types)

\* the loop of findMemoryType from index on; types[index + 1] is
\* memoryTypes[index].propertyFlags. After the loop LOG_FATAL is called, and
\* 0 is returned if that call comes back.
RECURSIVE findMemoryTypeFrom(_, _, _, _)
findMemoryTypeFrom(index, filter, props, types) ==
    IF index >= Len(types)
    THEN [raised |-> LogThrows("fatal"), index |-> 0]
    ELSE IF BitAnd(filter, 2 ^ index) # 0 /\ BitAnd(types[index + 1], props) = props
         THEN [raised |-> FALSE, index |-> index]
         ELSE findMemoryTypeFrom(index + 1, filter, props, types)

findMemoryType(filter, props, types) == findMemoryTypeFrom(0, filter, props, types)

\* ---------------------------------------------------------------------------
\* createGraphicsPipeline: the shader stage array
\* ---------------------------------------------------------------------------
\* VkPipelineShaderStageCreateInfo info {}: every member zero; sType 0 is
\* VK_STRUCTURE_TYPE_APPLICATION_INFO
ZeroStageInfo ==
    [ sType |-> "VK_STRUCTURE_TYPE_APPLICATION_INFO", stage |-> "0",
      module |-> NullHandle, pName |-> "nullptr" ]

\* the four assignments to the members of one stage struct
StageAssigned(info, stageBit, shaderModule) ==
    [ info EXCEPT !.sType = "VK_STRUCTURE_TYPE_PIPELINE_SHADER_STAGE_CREATE_INFO",
                  !.stage = stageBit,
                  !.module = shaderModule,
                  !.pName = "main" ]

\* a stage array with the two structs in the other order
shaderStagesFragmentFirst(vert, frag) ==
    << StageAssigned(ZeroStageInfo, "VK_SHADER_STAGE_FRAGMENT_BIT", frag),
       StageAssigned(ZeroStageInfo, "VK_SHADER_STAGE_VERTEX_BIT", vert) >>

\* shaderStages[] of part_002
shaderStages(vert, frag) ==
    LET vertShaderStageInfo == StageAssigned(ZeroStageInfo, "VK_SHADER_STAGE_VERTEX_BIT", vert)
        fragShaderStageInfo == StageAssigned(ZeroStageInfo, "VK_SHADER_STAGE_FRAGMENT_BIT", frag)
    IN << vertShaderStageInfo, fragShaderStageInfo >>

\* shaderStages[] of src/vulkan_app.cpp
shaderStages_vulkan_app(vert, frag) ==
    LET vertShaderStageInfo == StageAssigned(ZeroStageInfo, "VK_SHADER_STAGE_VERTEX_BIT", vert)
        fragShaderStageInfo == StageAssigned(ZeroStageInfo, "VK_SHADER_STAGE_FRAGMENT_BIT", frag)
    IN << vertShaderStageInfo, fragShaderStageInfo >>

\* shaderStages[] of part_005: the second group of assignments is made to
\* vertShaderStageInfo again, fragShaderStageInfo stays as value-initialized
shaderStages_part_005(vert, frag) ==
    LET vertShaderStageInfo ==
            StageAssigned(StageAssigned(ZeroStageInfo, "VK_SHADER_STAGE_VERTEX_BIT", vert),
                          "VK_SHADER_STAGE_FRAGMENT_BIT", frag)
        fragShaderStageInfo == ZeroStageInfo
    IN << vertShaderStageInfo, fragShaderStageInfo >>

\* handles createShaderModule hands out in the model
MaxShaderModules == 3
ShaderModuleHandles == 1 .. MaxShaderModules

\* ---------------------------------------------------------------------------
\* The device-query helpers on their own: a driver's report is drawn, the
\* helper is applied to it once
\* ---------------------------------------------------------------------------
Callees == {"chooseSwapSurfaceFormat", "chooseSwapPresentMode", "chooseSwapExtent",
            "findQueueFamilies", "isDeviceSuitable", "isDeviceSuitable_main",
            "createSwapChain", "findMemoryType", "createGraphicsPipeline",
            "createGraphicsPipeline_vulkan_app", "createGraphicsPipeline_part_005"}

\* the variables a helper reads
Reads(fn) ==
    CASE fn = "chooseSwapSurfaceFormat" -> {"availableFormats"}
      [] fn = "chooseSwapPresentMode" -> {"availablePresentModes"}
      [] fn = "chooseSwapExtent" -> {"capabilities", "fbSize"}
      [] fn = "findQueueFamilies" -> {"queueFamilies"}
      [] fn = "createSwapChain" -> {"capabilities"}
      [] fn = "findMemoryType" -> {"memoryTypes", "typeFilter", "properties"}
      [] fn \in {"createGraphicsPipeline", "createGraphicsPipeline_vulkan_app",
                 "createGraphicsPipeline_part_005"} -> {"shaderModules"}
      [] fn \in {"isDeviceSuitable", "isDeviceSuitable_main"} ->
            {"queueFamilies", "availableExtensions", "availableFormats",
             "availablePresentModes", "samplerAnisotropy"}

\* what is drawn for a variable the helper reads, one value otherwise
Drawn(fn, name, values, default) == IF name \in Reads(fn) THEN values ELSE {default}

InitQuery ==
    /\ pc = "query"
    /\ ip = 0
    /\ alive = {}
    /\ vecLen = [v \in PerImageVectors |-> 0]
    /\ imagesInFlight_ = << >>
    /\ inFlightFences_ = [s \in Slots |-> "null"]
    /\ currentFrameIndex_ = 0
    /\ frameBufferResized_ = FALSE
    /\ imageIndex = 0
    /\ acquireResult = "none"
    /\ presentResult = "none"
    /\ uboWritten = NullHandle
    /\ syncSteps = << >>
    /\ width = 0
    /\ height = 0
    /\ shouldClose = FALSE
    /\ gpuQueue = << >>
    /\ framesDone = 0
    /\ flagSeen = FALSE
    /\ recreateCalled = FALSE
    /\ creationFailed = FALSE
    /\ fatalLogged = FALSE
    /\ raised = FALSE
    /\ phasesDone = {}
    /\ exitCode = "none"
    /\ returned = << >>
    /\ SemaphoresIdle
    /\ callee \in Callees
    /\ fbSize \in Drawn(callee, "fbSize", WindowSizes \X WindowSizes, << WIDTH, HEIGHT >>)
    /\ capabilities \in
          IF callee = "createSwapChain"
          THEN ImageCountCapabilities
          ELSE Drawn(callee, "capabilities", SurfaceCapabilities, "none")
    /\ memoryTypes \in
          Drawn(callee, "memoryTypes", SeqsOf(MemoryPropertyFlags, 0, MaxMemoryTypes), << >>)
    /\ typeFilter \in Drawn(callee, "typeFilter", TypeFilters, 0)
    /\ properties \in Drawn(callee, "properties", MemoryPropertyFlags, 0)
    /\ vertShaderModule \in Drawn(callee, "shaderModules", ShaderModuleHandles, NullHandle)
    /\ fragShaderModule \in
          Drawn(callee, "shaderModules", ShaderModuleHandles \ {vertShaderModule}, NullHandle)
    /\ availableFormats \in
          IF callee = "chooseSwapSurfaceFormat"
          THEN SeqsOf(SurfaceFormats, 1, MaxListLen)
          ELSE Drawn(callee, "availableFormats", SeqsOf({VkSurfaceFormatKHR(
                        "VK_FORMAT_B8G8R8A8_SRGB", "VK_COLORSPACE_SRGB_NONLINEAR_KHR")}, 0, 1),
                     << >>)
    /\ availablePresentModes \in
          IF callee = "chooseSwapPresentMode"
          THEN SeqsOf(PresentModes, 0, MaxListLen)
          ELSE Drawn(callee, "availablePresentModes",
                     SeqsOf({"VK_PRESENT_MODE_FIFO_KHR"}, 0, 1), << >>)
    /\ queueFamilies \in Drawn(callee, "queueFamilies", SeqsOf(QueueFamilies, 0, MaxListLen), << >>)
    /\ availableExtensions \in
          Drawn(callee, "availableExtensions", SeqsOf(ExtensionNames, 0, 2), << >>)
    /\ samplerAnisotropy \in Drawn(callee, "samplerAnisotropy", BOOLEAN, FALSE)

Returns(fn, value) ==
    /\ callee = fn
    /\ returned = << >>
    /\ returned' = << value >>
    /\ UNCHANGED << appVars, callee, queueFamilies, availableExtensions, samplerAnisotropy,
                    availableFormats, availablePresentModes, capabilities, memoryTypes,
                    typeFilter, properties, vertShaderModule, fragShaderModule,
                    snapshotVars >>

call_chooseSwapSurfaceFormat ==
    Returns("chooseSwapSurfaceFormat", chooseSwapSurfaceFormat(availableFormats))

call_chooseSwapPresentMode ==
    Returns("chooseSwapPresentMode", chooseSwapPresentMode(availablePresentModes))

call_chooseSwapExtent ==
    Returns("chooseSwapExtent", chooseSwapExtent(capabilities, fbSize))

call_findQueueFamilies ==
    Returns("findQueueFamilies", findQueueFamilies(queueFamilies))

call_isDeviceSuitable ==
    Returns("isDeviceSuitable",
            isDeviceSuitable(queueFamilies, availableExtensions, availableFormats,
                             availablePresentModes, samplerAnisotropy))

call_isDeviceSuitable_main ==
    Returns("isDeviceSuitable_main",
            isDeviceSuitable_main(queueFamilies, availableExtensions, availableFormats,
                                  availablePresentModes))

call_createSwapChain ==
    Returns("createSwapChain", createInfo_minImageCount(capabilities))

call_findMemoryType ==
    Returns("findMemoryType", findMemoryType(typeFilter, properties, memoryTypes))

call_createGraphicsPipeline ==
    Returns("createGraphicsPipeline", shaderStages(vertShaderModule, fragShaderModule))

call_createGraphicsPipeline_vulkan_app ==
    Returns("createGraphicsPipeline_vulkan_app",
            shaderStages_vulkan_app(vertShaderModule, fragShaderModule))

call_createGraphicsPipeline_part_005 ==
    Returns("createGraphicsPipeline_part_005",
            shaderStages_part_005(vertShaderModule, fragShaderModule))

NextQuery ==
    \/ call_chooseSwapSurfaceFormat
    \/ call_chooseSwapPresentMode
    \/ call_chooseSwapExtent
    \/ call_findQueueFamilies
    \/ call_isDeviceSuitable
    \/ call_isDeviceSuitable_main
    \/ call_createSwapChain
    \/ call_findMemoryType
    \/ call_createGraphicsPipeline
    \/ call_createGraphicsPipeline_vulkan_app
    \/ call_createGraphicsPipeline_part_005

SpecQuery == InitQuery /\ [][NextQuery]_vars

\* ---------------------------------------------------------------------------
\* The snapshot of src/src/vulkan_app.cpp: drawFrame with one
\* imageAvailableSemaphore_ / renderFinishedSemaphore_ pair and no fences.
\* gpuQueue holds the queue operations not yet executed, oldest first: the
\* submission of a frame, which waits on imageAvailableSemaphore_ and signals
\* renderFinishedSemaphore_, and its present, which waits on
\* renderFinishedSemaphore_.
\* ---------------------------------------------------------------------------
QueueOp(op, image) == [op |-> op, image |-> image]

\* what this snapshot's main loop never writes
snapshotFixed == << ip, alive, vecLen, imagesInFlight_, inFlightFences_, currentFrameIndex_,
                    frameBufferResized_, acquireResult, presentResult, uboWritten, syncSteps,
                    width, height, fbSize, flagSeen, recreateCalled, creationFailed,
                    fatalLogged, phasesDone, exitCode, queryVars >>

\* the state in which initVulkan (createSemaphores last) hands over to mainLoop
InitSnapshot ==
    /\ pc = "snapshot_mainLoop"
    /\ ip = 0
    /\ alive = {}
    /\ \E imageCount \in ImageCounts :
          vecLen = [v \in PerImageVectors |-> imageCount]
    /\ imagesInFlight_ = << >>
    /\ inFlightFences_ = [s \in Slots |-> "null"]
    /\ currentFrameIndex_ = 0
    /\ frameBufferResized_ = FALSE
    /\ imageIndex = 0
    /\ acquireResult = "none"
    /\ presentResult = "none"
    /\ uboWritten = NullHandle
    /\ syncSteps = << >>
    /\ width = 0
    /\ height = 0
    /\ fbSize = << WIDTH, HEIGHT >>
    /\ shouldClose = FALSE
    /\ gpuQueue = << >>
    /\ framesDone = 0
    /\ flagSeen = FALSE
    /\ recreateCalled = FALSE
    /\ creationFailed = FALSE
    /\ fatalLogged = FALSE
    /\ raised = FALSE
    /\ phasesDone = {}
    /\ exitCode = "none"
    /\ QueryIdle
    /\ SemaphoresIdle

\* while (!glfwWindowShouldClose(window_)) { glfwPollEvents(); drawFrame(); }
snapshot_mainLoop ==
    /\ pc = "snapshot_mainLoop"
    /\ IF shouldClose
       THEN /\ pc' = "snapshot_waitIdle"
            /\ shouldClose' = shouldClose
       ELSE /\ framesDone < MaxFrames
            /\ shouldClose' \in BOOLEAN
            /\ pc' = "snapshot_acquire"
    /\ UNCHANGED << imageIndex, gpuQueue, framesDone, raised, snapshotVars, snapshotFixed >>

\* the images the presentation engine can hand out: those with no queue
\* operation outstanding
AvailableImages ==
    { i \in 0 .. (vecLen["swapChainImages_"] - 1) :
        \A k \in 1 .. Len(gpuQueue) : gpuQueue[k].image # i }

\* vkAcquireNextImageKHR(device_, swapChain_, UINT64_MAX, imageAvailableSemaphore_, ...):
\* blocks until an image can be handed out, and gives the semaphore a signal
\* operation
snapshot_acquire ==
    /\ pc = "snapshot_acquire"
    /\ imageIndex' \in AvailableImages
    /\ imageAvailableSemaphore_' = imageAvailableSemaphore_ + 1
    /\ pc' = "snapshot_submit"
    /\ UNCHANGED << shouldClose, gpuQueue, framesDone, raised, renderFinishedSemaphore_,
                    snapshotFixed >>

\* vkQueueSubmit(graphicsQueue_, 1, &submitInfo, VK_NULL_HANDLE): waits on
\* imageAvailableSemaphore_, gives renderFinishedSemaphore_ a signal operation
snapshot_submit ==
    /\ pc = "snapshot_submit"
    /\ \E ok \in BOOLEAN :
          IF ok
          THEN /\ gpuQueue' = Append(gpuQueue, QueueOp("submit", imageIndex))
               /\ renderFinishedSemaphore_' = renderFinishedSemaphore_ + 1
               /\ pc' = "snapshot_present"
               /\ raised' = raised
          ELSE /\ pc' = "thrown"
               /\ raised' = TRUE
               /\ UNCHANGED << gpuQueue, renderFinishedSemaphore_ >>
    /\ UNCHANGED << imageIndex, shouldClose, framesDone, imageAvailableSemaphore_,
                    snapshotFixed >>

\* vkQueuePresentKHR(presentQueue_, &presentInfo): waits on
\* renderFinishedSemaphore_; drawFrame returns
snapshot_present ==
    /\ pc = "snapshot_present"
    /\ gpuQueue' = Append(gpuQueue, QueueOp("present", imageIndex))
    /\ framesDone' = framesDone + 1
    /\ pc' = "snapshot_mainLoop"
    /\ UNCHANGED << imageIndex, shouldClose, raised, snapshotVars, snapshotFixed >>

\* vkDeviceWaitIdle(device_) after the loop
snapshot_waitIdle ==
    /\ pc = "snapshot_waitIdle"
    /\ gpuQueue = << >>
    /\ pc' = "snapshot_done"
    /\ UNCHANGED << imageIndex, shouldClose, gpuQueue, framesDone, raised, snapshotVars,
                    snapshotFixed >>

\* the oldest queue operation executes: its semaphore wait consumes the signal
snapshot_GpuExecute ==
    /\ gpuQueue # << >>
    /\ gpuQueue' = Tail(gpuQueue)
    /\ IF Head(gpuQueue).op = "submit"
       THEN /\ imageAvailableSemaphore_' = imageAvailableSemaphore_ - 1
            /\ renderFinishedSemaphore_' = renderFinishedSemaphore_
       ELSE /\ renderFinishedSemaphore_' = renderFinishedSemaphore_ - 1
            /\ imageAvailableSemaphore_' = imageAvailableSemaphore_
    /\ UNCHANGED << pc, imageIndex, shouldClose, framesDone, raised, snapshotFixed >>

NextSnapshot ==
    \/ snapshot_mainLoop
    \/ snapshot_acquire
    \/ snapshot_submit
    \/ snapshot_present
    \/ snapshot_waitIdle
    \/ snapshot_GpuExecute

SpecSnapshot == InitSnapshot /\ [][NextSnapshot]_vars

\* ---------------------------------------------------------------------------
\* Properties
\* ---------------------------------------------------------------------------
\* C1: once drawFrame is past the wait on the fence of its slot, and until it
\* resets that fence, the GPU has signaled the fence, that is, the previous
\* submission of this slot has retired.
C1_SlotFenceWaitBlocks ==
    pc \in {"drawFrame_acquire", "drawFrame_waitImage", "drawFrame_resetFence"}
        => inFlightFences_[currentFrameIndex_] = "signaled"

\* C2: no two submissions that target the same swapchain image are pending on
\* the GPU at the same time.
C2_NoTwoPendingOnOneImage ==
    \A j, k \in 1 .. Len(gpuQueue) :
        (j < k /\ gpuQueue[j].image # NullHandle) => gpuQueue[j].image # gpuQueue[k].image

\* C3: currentFrameIndex_ is a valid slot and equals the number of completed
\* drawFrame calls modulo MAX_FRAMES_IN_FLIGHT, whatever the frames did.
C3_FrameIndexCycles ==
    /\ currentFrameIndex_ \in Slots
    /\ currentFrameIndex_ = framesDone % MAX_FRAMES_IN_FLIGHT

\* three frames are complete and the fourth, which recreated the swapchain,
\* is about to advance the index
C3_Witness ==
    /\ pc = "drawFrame_advance"
    /\ recreateCalled
    /\ framesDone = 3
    /\ currentFrameIndex_ = 1

\* C4: a frame calls recreateSwapChain exactly when its present returned
\* out-of-date or suboptimal or frameBufferResized_ was set; the flag is clear
\* when recreateSwapChain is entered; recreation runs in no other frame.
C4_RecreateExactlyWhenStale ==
    /\ presentResult # "none" =>
          (recreateCalled <=> \/ presentResult = "VK_ERROR_OUT_OF_DATE_KHR"
                              \/ presentResult = "VK_SUBOPTIMAL_KHR"
                              \/ flagSeen)
    /\ pc = "recreateSwapChain_getSize" => (recreateCalled /\ ~frameBufferResized_)
    /\ pc \in {"recreateSwapChain_getSize", "recreateSwapChain_minimized", "recreateSwapChain"}
          => recreateCalled
    /\ (pc = "drawFrame_advance" /\ ~recreateCalled) => (presentResult = "VK_SUCCESS" /\ ~flagSeen)

\* present reported suboptimal with the flag unset, and the frame recreates
C4_Witness ==
    /\ pc = "recreateSwapChain_getSize"
    /\ presentResult = "VK_SUBOPTIMAL_KHR"
    /\ ~flagSeen
    /\ recreateCalled

\* C5: when reconstruction begins (the device-idle wait of recreateSwapChain is
\* the next step) the framebuffer of the window has non-zero width and height.
C5_NoReconstructionWhileMinimized ==
    (pc = "recreateSwapChain" /\ ip = 1) => (fbSize[1] # 0 /\ fbSize[2] # 0)

\* C6: whenever the next step destroys or frees an object, the GPU has no
\* submitted work pending.
C6_NoDestroyWhilePending ==
    (InProcedure /\ CurOp.kind = "destroy") => gpuQueue = << >>

\* recreateSwapChain is about to run its first destroy in a frame that has
\* submitted work
C6_Witness ==
    /\ pc = "recreateSwapChain"
    /\ ip = 2
    /\ recreateCalled
    /\ framesDone >= 1
    /\ gpuQueue = << >>

\* C7: outside initVulkan, recreateSwapChain and cleanup, every per-image
\* vector and imagesInFlight_ has swapChainImages_.size() elements, and the
\* image index in use is a valid index.
InFrameLoop ==
    pc \in {"mainLoop", "mainLoop_pollEvents", "mainLoop_waitIdle", "drawFrame_waitFence",
            "drawFrame_acquire", "drawFrame_waitImage", "drawFrame_resetFence",
            "drawFrame_updateUniform", "drawFrame_submit", "drawFrame_present",
            "drawFrame_advance"}

C7_PerImageVectorsSized ==
    InFrameLoop =>
        /\ \A v \in PerImageVectors : vecLen[v] = vecLen["swapChainImages_"]
        /\ Len(imagesInFlight_) = vecLen["swapChainImages_"]
        /\ imageIndex < vecLen["swapChainImages_"]

\* the first frame marked an image other than image 0 and then recreated the
\* swapchain with a single image: the recreation shrank the vectors
C7_Witness ==
    /\ pc = "drawFrame_advance"
    /\ recreateCalled
    /\ framesDone = 0
    /\ Len(imagesInFlight_) = 1
    /\ imagesInFlight_[1] = NullHandle

\* C8: once a creation call has returned a non-success code the program is on
\* its fatal-error path; it runs no further step.
C8_FailedCreationIsFatal ==
    creationFailed => pc \in {"thrown", "exited"}

\* C9: a frame that has submitted and is about to present acquired its image
\* successfully.
C9_NoSubmitAfterFailedAcquire ==
    pc = "drawFrame_present" =>
        (acquireResult = "VK_SUCCESS" \/ acquireResult = "VK_SUBOPTIMAL_KHR")

\* C10: control never continues past LOG_FATAL, an error raised in run()
\* reaches main, main returns EXIT_FAILURE exactly when run() raised, and
\* EXIT_SUCCESS exactly when initWindow, initVulkan, mainLoop and cleanup
\* have all returned.
C10_FatalPropagatesToExitCode ==
    /\ fatalLogged => (raised /\ pc \in {"thrown", "exited"})
    /\ raised => (pc = "thrown" \/ (pc = "exited" /\ exitCode = "EXIT_FAILURE"))
    /\ exitCode = "EXIT_FAILURE" <=> (pc = "exited" /\ raised)
    /\ exitCode = "EXIT_SUCCESS" <=>
          (pc = "exited" /\ ~raised
           /\ phasesDone = {"initWindow", "initVulkan", "mainLoop", "cleanup"})

\* a fatal log in the frame loop ended the process with EXIT_FAILURE
C10_Witness ==
    /\ pc = "exited"
    /\ exitCode = "EXIT_FAILURE"
    /\ fatalLogged
    /\ framesDone >= 1

\* ---------------------------------------------------------------------------
\* Properties of the device-query helpers
\* ---------------------------------------------------------------------------
Returned(fn) == callee = fn /\ returned # << >>

PreferredFormat == VkSurfaceFormatKHR("VK_FORMAT_B8G8R8A8_SRGB", "VK_COLORSPACE_SRGB_NONLINEAR_KHR")

\* C11: for a non-empty list of surface formats chooseSwapSurfaceFormat returns
\* an element of the list: the (B8G8R8A8_SRGB, SRGB_NONLINEAR) entry when the
\* list has one, the first element otherwise.
C11_FormatIsPreferredOrFirst ==
    (Returned("chooseSwapSurfaceFormat") /\ availableFormats # << >>) =>
        /\ returned[1] \in Range(availableFormats)
        /\ IF PreferredFormat \in Range(availableFormats)
           THEN returned[1] = PreferredFormat
           ELSE returned[1] = availableFormats[1]

\* the preferred format was the last of three and was returned
C11_Witness ==
    /\ Returned("chooseSwapSurfaceFormat")
    /\ Len(availableFormats) = 3
    /\ availableFormats[1].format = "VK_FORMAT_B8G8R8A8_SRGB"
    /\ availableFormats[1] # PreferredFormat
    /\ availableFormats[2] # PreferredFormat
    /\ returned[1] = PreferredFormat

\* C12: for every list of present modes chooseSwapPresentMode returns a member
\* of the list: MAILBOX when the list contains it, FIFO otherwise.
C12_ModeIsMemberOfList ==
    Returned("chooseSwapPresentMode") =>
        /\ returned[1] \in Range(availablePresentModes)
        /\ IF "VK_PRESENT_MODE_MAILBOX_KHR" \in Range(availablePresentModes)
           THEN returned[1] = "VK_PRESENT_MODE_MAILBOX_KHR"
           ELSE returned[1] = "VK_PRESENT_MODE_FIFO_KHR"

\* C12 as amended: chooseSwapPresentMode returns MAILBOX when the list contains
\* it and FIFO otherwise; what it returns is a member of the list whenever the
\* list contains MAILBOX or FIFO.
C12_MailboxElseFifo ==
    Returned("chooseSwapPresentMode") =>
        /\ IF "VK_PRESENT_MODE_MAILBOX_KHR" \in Range(availablePresentModes)
           THEN returned[1] = "VK_PRESENT_MODE_MAILBOX_KHR"
           ELSE returned[1] = "VK_PRESENT_MODE_FIFO_KHR"
        /\ ({"VK_PRESENT_MODE_MAILBOX_KHR", "VK_PRESENT_MODE_FIFO_KHR"}
                \cap Range(availablePresentModes) # {})
              => returned[1] \in Range(availablePresentModes)

\* MAILBOX follows FIFO in the list and is the one returned
C12_Witness ==
    /\ Returned("chooseSwapPresentMode")
    /\ Len(availablePresentModes) = 3
    /\ availablePresentModes[1] = "VK_PRESENT_MODE_FIFO_KHR"
    /\ availablePresentModes[3] = "VK_PRESENT_MODE_MAILBOX_KHR"
    /\ returned[1] = "VK_PRESENT_MODE_MAILBOX_KHR"

\* the test chooseSwapExtent applies to currentExtent
IsUndefinedExtent(extent) == extent.width = UINT32_MAX

UBetween(lo, x, hi) == ULeq(lo, x) /\ ULeq(x, hi)

C14_CurrentExtentVerbatim ==
    Returned("chooseSwapExtent") =>
        IF IsUndefinedExtent(capabilities.currentExtent)
        THEN /\ returned[1].width =
                   StdMax(capabilities.minImageExtent.width,
                          StdMin(capabilities.maxImageExtent.width, ToUint32(fbSize[1])))
             /\ returned[1].height =
                   StdMax(capabilities.minImageExtent.height,
                          StdMin(capabilities.maxImageExtent.height, ToUint32(fbSize[2])))
        ELSE returned[1] = capabilities.currentExtent

\* currentExtent lies below minImageExtent and is returned as it is
C14_Witness ==
    /\ Returned("chooseSwapExtent")
    /\ capabilities.currentExtent = VkExtent2D(ToUint32(1), ToUint32(1))
    /\ capabilities.minImageExtent = VkExtent2D(ToUint32(2), ToUint32(2))
    /\ capabilities.maxImageExtent = VkExtent2D(ToUint32(2), ToUint32(2))
    /\ fbSize = << 0, 0 >>
    /\ returned[1] = VkExtent2D(ToUint32(1), ToUint32(1))

\* the three requirements of a suitable device
HasRequiredQueueFamilies ==
    /\ \E k \in 1 .. Len(queueFamilies) : queueFamilies[k].graphics
    /\ \E k \in 1 .. Len(queueFamilies) : queueFamilies[k].present
HasRequiredExtensions == gDeviceExtensions \subseteq Range(availableExtensions)
HasSwapChainSupport == availableFormats # << >> /\ availablePresentModes # << >>

\* C15: isDeviceSuitable returns true exactly for the devices that have a
\* graphics and a present queue family, every required extension (by name),
\* and a non-empty format list and present-mode list.
C15_SuitableIffRequirementsMet ==
    (Returned("isDeviceSuitable") \/ Returned("isDeviceSuitable_main")) =>
        (returned[1] <=>
            (HasRequiredQueueFamilies /\ HasRequiredExtensions /\ HasSwapChainSupport))

\* C16: findQueueFamilies returns complete indices exactly when the device has
\* a graphics family and a family that presents to the surface; an index that
\* is set names a family with that capability.
C16_IndicesCompleteIffFamiliesExist ==
    Returned("findQueueFamilies") =>
        LET indices == returned[1] IN
        /\ (has_value(indices.graphicsFamily) /\ has_value(indices.presentFamily))
              <=> HasRequiredQueueFamilies
        /\ has_value(indices.graphicsFamily) =>
              /\ indices.graphicsFamily \in 0 .. (Len(queueFamilies) - 1)
              /\ queueFamilies[indices.graphicsFamily + 1].graphics
        /\ has_value(indices.presentFamily) =>
              /\ indices.presentFamily \in 0 .. (Len(queueFamilies) - 1)
              /\ queueFamilies[indices.presentFamily + 1].present

\* the graphics family comes first, the present family last, neither has both
C16_Witness ==
    /\ Returned("findQueueFamilies")
    /\ Len(queueFamilies) = 3
    /\ queueFamilies[1] = [graphics |-> TRUE, present |-> FALSE]
    /\ queueFamilies[2] = [graphics |-> FALSE, present |-> FALSE]
    /\ queueFamilies[3] = [graphics |-> FALSE, present |-> TRUE]
    /\ returned[1] = QueueFamilyIndices(0, 2)

\* ---------------------------------------------------------------------------
\* Properties of the order of creation and destruction
\* ---------------------------------------------------------------------------
\* the next step is a vkDestroy* / vkFree* of cleanup or cleanupSwapChain
InTeardown ==
    /\ InProcedure
    /\ CurOp.kind = "destroy"
    /\ CurOp.fn \in {"cleanup", "cleanupSwapChain"}

\* C17: in cleanup and cleanupSwapChain no object is destroyed while an object
\* created from it, bound to it, recorded against it or written with it is
\* still alive (the sets and buffers of a pool go with the pool); in
\* particular every object of the device is gone when vkDestroyDevice runs.
C17_StrictReverseDependencyOrder ==
    (InTeardown /\ ~creationFailed) =>
        \A obj \in alive \ ({CurOp.obj} \cup OwnedBy(CurOp.obj)) :
            CurOp.obj \notin (CreatedFrom(obj) \cup BoundTo(obj) \cup RecordedFrom(obj))

\* C17, the part about creation and binding: in cleanup and cleanupSwapChain
\* no object is destroyed while an object created from it or bound to it is
\* still alive, and every object of the device is gone when vkDestroyDevice
\* runs; objects that are only recorded into command buffers or written into
\* descriptor sets are left aside here.
C17_ParentsOutliveChildren ==
    InTeardown =>
        \A obj \in alive \ ({CurOp.obj} \cup OwnedBy(CurOp.obj)) :
            CurOp.obj \notin (CreatedFrom(obj) \cup BoundTo(obj))

\* cleanup has reached vkDestroyDevice after at least one frame
C17_Witness ==
    /\ pc = "cleanup"
    /\ InProcedure
    /\ CurOp.api = "vkDestroyDevice"
    /\ framesDone >= 1
    /\ "device_" \in alive

\* C19: in initVulkan and recreateSwapChain a creation step runs only when
\* every handle it is created from, and every handle recorded or written into
\* it, exists; the frame loop runs only after initVulkan has returned.
C19_CreateAfterItsInputs ==
    /\ (/\ InProcedure
        /\ pc \in {"initVulkan", "recreateSwapChain"}
        /\ CurOp.kind = "create"
        /\ CurOp.obj # "") =>
          (CreatedFrom(CurOp.obj) \cup RecordedFrom(CurOp.obj)) \subseteq alive
    /\ InFrameLoop => {"initWindow", "initVulkan"} \subseteq phasesDone

\* recreateSwapChain is about to allocate the command buffers again
C19_Witness ==
    /\ pc = "recreateSwapChain"
    /\ InProcedure
    /\ CurOp.api = "vkAllocateCommandBuffers"
    /\ CurOp.obj = "commandBuffers_"
    /\ recreateCalled

\* ---------------------------------------------------------------------------
\* Properties of the synchronization calls of one frame
\* ---------------------------------------------------------------------------
PositionIn(order, api) == CHOOSE i \in 1 .. Len(order) : order[i] = api

\* the calls made so far follow order: each call comes after every call that
\* precedes it in order, the optional ones excepted, and after no other
FollowsOrder(order, optional) ==
    \A k \in 1 .. Len(syncSteps) :
        LET p == PositionIn(order, syncSteps[k].api) IN
        /\ ({ order[i] : i \in 1 .. (p - 1) } \ optional)
              \subseteq { syncSteps[j].api : j \in 1 .. (k - 1) }
        /\ \A j \in 1 .. (k - 1) : PositionIn(order, syncSteps[j].api) < p

\* the slot fence and the semaphores the calls of this frame name
UsesSlotObjects ==
    \A k \in 1 .. Len(syncSteps) :
        LET step == syncSteps[k] IN
        /\ step.api \in {"vkWaitForFences", "vkResetFences"} => step.fence = currentFrameIndex_
        /\ step.api = "vkQueueSubmit" =>
              (step.fence = currentFrameIndex_ /\ step.semaphore = currentFrameIndex_)
        /\ step.api = "vkQueuePresentKHR" => step.semaphore = currentFrameIndex_

\* C18: within one drawFrame on slot s the calls are made in this order: wait
\* on fence[s], reset fence[s], acquire, wait on the fence recorded for the
\* acquired image (when there is one), submit signaling fence[s] and
\* renderFinished[s], present waiting on renderFinished[s].
C18_ResetBeforeAcquire ==
    /\ FollowsOrder(<< "vkWaitForFences", "vkResetFences", "vkAcquireNextImageKHR",
                       "vkWaitForFences(image)", "vkQueueSubmit", "vkQueuePresentKHR" >>,
                    {"vkWaitForFences(image)"})
    /\ UsesSlotObjects

\* C18 as amended: within one drawFrame on slot s the calls are made in this
\* order: wait on fence[s], acquire, wait on the fence recorded for the
\* acquired image (when there is one), reset fence[s], submit signaling
\* fence[s] and renderFinished[s], present waiting on renderFinished[s].
C18_ResetBeforeSubmit ==
    /\ FollowsOrder(<< "vkWaitForFences", "vkAcquireNextImageKHR", "vkWaitForFences(image)",
                       "vkResetFences", "vkQueueSubmit", "vkQueuePresentKHR" >>,
                    {"vkWaitForFences(image)"})
    /\ UsesSlotObjects

\* a frame on slot 1 has made all six calls, the wait on the image fence included
C18_Witness ==
    /\ pc = "drawFrame_advance"
    /\ currentFrameIndex_ = 1
    /\ Len(syncSteps) = 6
    /\ syncSteps[3].api = "vkWaitForFences(image)"
    /\ syncSteps[6].api = "vkQueuePresentKHR"

\* C20: at every point of the frame loop at most MAX_FRAMES_IN_FLIGHT frames
\* are submitted to the graphics queue and not yet completed by the GPU.
FramesInFlight == Cardinality({ k \in 1 .. Len(gpuQueue) : gpuQueue[k].image # NullHandle })

C20_AtMostMaxFramesInFlight ==
    FramesInFlight <= MAX_FRAMES_IN_FLIGHT

RebuildStarts == pc = "recreateSwapChain" /\ ip = 1

\* the window is never closed and is restored again whenever it is minimized
WindowStaysUsable == []~shouldClose /\ []<>~Minimized(fbSize[1], fbSize[2])

\* C22: a framebuffer-resize event, delivered by glfwPollEvents or by
\* glfwWaitEvents, is followed by the start of a swapchain rebuild, as long as
\* the window is not closed and does not stay minimized (or run() is left by an
\* error).
C22_ResizeLeadsToRecreation ==
    WindowStaysUsable
        => ((frameBufferResized_ /\ framesDone + 1 < MaxFrames)
                ~> (RebuildStarts \/ Terminated))

\* an entry of imagesInFlight_ is VK_NULL_HANDLE or the fence of a frame slot
\* that exists
NullOrLiveFence(entry) ==
    \/ entry = NullHandle
    \/ entry \in Slots /\ inFlightFences_[entry] \in {"signaled", "unsignaled"}

\* C23 as stated: in every reachable state each entry of imagesInFlight_ is null
\* or one of the live fences of inFlightFences_.
C23_EntriesNullOrLiveFence ==
    \A k \in 1 .. Len(imagesInFlight_) : NullOrLiveFence(imagesInFlight_[k])

\* C23 amended: until the main loop has ended, each entry of imagesInFlight_ is
\* null or a live fence of inFlightFences_; every resize of imagesInFlight_
\* (from empty in createSyncObjects, to the new image count in
\* recreateSwapChain) keeps the entries that remain and fills the added ones
\* with null.
C23_EntriesNullOrLiveUntilCleanup ==
    /\ []("mainLoop" \notin phasesDone => C23_EntriesNullOrLiveFence)
    /\ [][(InProcedure /\ CurOp.kind = "resize" /\ CurOp.obj = "imagesInFlight_" /\ pc' # pc)
             => \A k \in 1 .. Len(imagesInFlight_') :
                   imagesInFlight_'[k] = IF k <= Len(imagesInFlight_)
                                         THEN imagesInFlight_[k]
                                         ELSE NullHandle]_vars

\* a recreation has resized imagesInFlight_ and left it with an entry kept from
\* an earlier frame next to a null one
C23_Witness ==
    /\ pc = "drawFrame_advance"
    /\ recreateCalled
    /\ \E k \in 1 .. Len(imagesInFlight_) : imagesInFlight_[k] \in Slots
    /\ \E k \in 1 .. Len(imagesInFlight_) : imagesInFlight_[k] = NullHandle

\* the objects created once by initVulkan that do not depend on the swapchain
SwapchainIndependent ==
    {"instance_", "surface_", "device_", "commandPool_", "descriptorSetLayout_",
     "vertexBuffer_", "vertexBufferMemory_", "indexBuffer_", "indexBufferMemory_",
     "textureImage_", "textureImageMemory_", "textureImageView_", "textureSampler_",
     "imageAvailableSemaphores_", "renderFinishedSemaphores_", "inFlightFences_"}

InRecreateSwapChain ==
    pc \in {"recreateSwapChain_getSize", "recreateSwapChain_minimized", "recreateSwapChain"}

\* C24: no step taken while recreateSwapChain runs creates or destroys an
\* object that does not depend on the swapchain (semaphores, fences, command
\* pool, descriptor set layout, vertex and index buffers, texture image, view
\* and sampler, device, surface, instance), and none changes
\* currentFrameIndex_.
C24_RecreateKeepsIndependentObjects ==
    [][InRecreateSwapChain
         => /\ alive' \cap SwapchainIndependent = alive \cap SwapchainIndependent
            /\ currentFrameIndex_' = currentFrameIndex_
            /\ \A s \in Slots : (inFlightFences_'[s] \in {"signaled", "unsignaled"})
                                  = (inFlightFences_[s] \in {"signaled", "unsignaled"})]_vars

\* recreateSwapChain has rebuilt the swapchain objects and returns; the
\* independent objects are all there
C24_Witness ==
    /\ pc = "drawFrame_advance"
    /\ recreateCalled
    /\ ~creationFailed
    /\ SwapchainIndependent \subseteq alive
    /\ {"swapChain_", "graphicsPipeline_", "commandBuffers_"} \subseteq alive

\* C25: drawFrame writes the uniform buffer of the acquired image, after the
\* wait on the fence recorded for that image and before the queue submit of
\* the frame, and no pending submission reads the buffer it writes.
C25_UniformWriteNotReadByGpu ==
    pc = "drawFrame_submit"
        => /\ uboWritten = imageIndex
           /\ \A k \in 1 .. Len(syncSteps) : syncSteps[k].api # "vkQueueSubmit"
           /\ \A k \in 1 .. Len(gpuQueue) : gpuQueue[k].image # uboWritten

\* C26: in the snapshot without fences a semaphore is never given a signal
\* operation while an earlier one has not been consumed by its wait, and no
\* command buffer (one per swapchain image) has two submissions pending.
C26_NoSignalWhileUnconsumed ==
    /\ imageAvailableSemaphore_ <= 1
    /\ renderFinishedSemaphore_ <= 1
    /\ \A j, k \in 1 .. Len(gpuQueue) :
          (j # k /\ gpuQueue[j].op = "submit" /\ gpuQueue[k].op = "submit")
              => gpuQueue[j].image # gpuQueue[k].image

\* C27: the debug messenger does not outlive the instance: cleanup destroys it
\* before it destroys the instance.
C27_MessengerDestroyedBeforeInstance ==
    "debugMessenger_" \in alive => "instance_" \in alive

\* C28: the image count createSwapChain requests is minImageCount + 1, or
\* maxImageCount when maxImageCount > 0 and minImageCount + 1 exceeds it; it
\* is at least minImageCount, and at most maxImageCount when maxImageCount > 0.
C28_ImageCountWithinLimits ==
    (callee = "createSwapChain" /\ returned # << >>) =>
        LET requested == returned[1]
            min == capabilities.minImageCount
            max == capabilities.maxImageCount
            limited == ULess(ToUint32(0), max)
        IN /\ IF limited /\ ULeq(max, min)
              THEN requested = max
              ELSE requested = UAdd(min, ToUint32(1)) /\ ULess(min, requested)
           /\ ULeq(min, requested)
           /\ limited => ULeq(requested, max)

\* bit i of a bit mask
BitSet(mask, i) == (mask \div (2 ^ i)) % 2 = 1

\* the indices findMemoryType may return: below memoryTypeCount, allowed by
\* the filter, with every required property flag
SuitableMemoryTypes ==
    { i \in 0 .. (Len(memoryTypes) - 1) :
        /\ BitSet(typeFilter, i)
        /\ \A bit \in 0 .. MaxPropertyFlags :
              BitSet(properties, bit) => BitSet(memoryTypes[i + 1], bit) }

\* C29: findMemoryType returns the lowest index below memoryTypeCount whose
\* bit is set in typeFilter and whose memory type has every required property
\* flag; when there is no such index it raises a fatal error and returns no
\* index to its caller.
C29_LowestSuitableTypeOrFatal ==
    (callee = "findMemoryType" /\ returned # << >>) =>
        IF SuitableMemoryTypes = {}
        THEN returned[1].raised
        ELSE /\ ~returned[1].raised
             /\ returned[1].index \in SuitableMemoryTypes
             /\ \A i \in SuitableMemoryTypes : returned[1].index <= i

\* findMemoryType has skipped a type the filter excludes although it has the
\* properties, and returned a later one
C29_Witness ==
    /\ callee = "findMemoryType"
    /\ returned # << >>
    /\ ~returned[1].raised
    /\ returned[1].index > 0
    /\ \E i \in 0 .. (returned[1].index - 1) :
          ~BitSet(typeFilter, i) /\ BitAnd(memoryTypes[i + 1], properties) = properties
    /\ properties # 0

\* findMemoryType has found no type among several and raised the fatal error
C29_WitnessFatal ==
    /\ callee = "findMemoryType"
    /\ returned # << >>
    /\ returned[1].raised
    /\ Len(memoryTypes) >= 2
    /\ typeFilter # 0

\* the stage struct the pipeline needs for one shader
FullyInitialized(info, stageBit, shaderModule) ==
    /\ info.sType = "VK_STRUCTURE_TYPE_PIPELINE_SHADER_STAGE_CREATE_INFO"
    /\ info.stage = stageBit
    /\ info.module = shaderModule
    /\ info.pName = "main"

\* C30: in every snapshot createGraphicsPipeline builds a stage array of two
\* entries, the first a fully initialized vertex stage with the vertex shader
\* module, the second a fully initialized fragment stage with the fragment
\* shader module, each with entry point main.
C30_VertexThenFragmentStage ==
    (/\ callee \in {"createGraphicsPipeline", "createGraphicsPipeline_vulkan_app",
                    "createGraphicsPipeline_part_005"}
     /\ returned # << >>) =>
        /\ Len(returned[1]) = 2
        /\ FullyInitialized(returned[1][1], "VK_SHADER_STAGE_VERTEX_BIT", vertShaderModule)
        /\ FullyInitialized(returned[1][2], "VK_SHADER_STAGE_FRAGMENT_BIT", fragShaderModule)
====
